---- MODULE Spec2Model ----
(***************************************************************************)
(* A model of src/src/graph.js (the Graph class): the entity store          *)
(* (_nodes, _edges, _order, _size), the lazily computed structure index     *)
(* (_indices.structure.computed and the per-node adjacency registers) and   *)
(* the operations that read and change them.                                *)
(*                                                                          *)
(* Every method of the class is a pure operator from the graph before the   *)
(* call (a record `this`) and the arguments to a completion record          *)
(*     [this |-> the graph when the call returns or throws,                 *)
(*      error |-> "none" or the class of the error thrown,                  *)
(*      value |-> the value returned]                                       *)
(* so that a throw keeps the writes made before it, as in JavaScript. The   *)
(* actions apply these operators to the state for every argument drawn from *)
(* small sets of keys and attribute values.                                 *)
(***************************************************************************)
EXTENDS Integers, Sequences, FiniteSets, TLC

(***************************************************************************)
(* Bounds of the model: the number of distinct node keys and edge keys the  *)
(* callers use.                                                             *)
(***************************************************************************)
MaxNodes == 2
MaxEdges == 2

\* Keys are opaque: the second edge key is the empty string, a key that is
\* falsy in JavaScript.
NodeNames == <<"A", "B", "C", "D">>
EdgeNames == <<"e1", "", "e3", "e4">>

NodeIds == {NodeNames[i] : i \in 1..MaxNodes}
EdgeIds == {EdgeNames[i] : i \in 1..MaxEdges}

(***************************************************************************)
(* JavaScript values.                                                       *)
(***************************************************************************)
\* The attribute arguments of the callers: no argument at all, a plain object,
\* and values that are not plain objects (null, which is falsy, and an array,
\* which is truthy). A missing argument reads undefined in the callee.
Absent      == "<no argument>"
JsUndefined == "undefined"
EmptyObject == "{}"
JsNull      == "null"
SomeArray   == "[1]"

AttributeArgs == {Absent, EmptyObject, JsNull, SomeArray}

\* What a parameter reads as inside the callee: a missing argument is undefined.
Param(arg) == IF arg = Absent THEN JsUndefined ELSE arg

\* JavaScript truthiness of the attribute values above.
Truthy(v) == v \in {EmptyObject, SomeArray}

\* a || b
OrElse(a, b) == IF Truthy(a) THEN a ELSE b

\* utils.isPlainObject: an object literal, neither null nor an array.
isPlainObject(v) == v = EmptyObject

\* Values returned by the methods.
Undefined  == [t |-> "undefined"]
NaN        == [t |-> "NaN"]
Number(n)  == [t |-> "number", n |-> n]
Boolean(b) == [t |-> "boolean", b |-> b]
Key(k)     == [t |-> "key", k |-> k]

\* JavaScript truthiness of a returned key or undefined: if (edge)
TruthyValue(v) == v.t = "key" /\ v.k # ""

\* a + b on numbers, where a missing counter reads undefined and makes the sum NaN.
Plus(a, b) == IF a.t = "number" /\ b.t = "number" THEN Number(a.n + b.n) ELSE NaN

\* data.field read as a number: undefined when the record has no such field.
Field(data, f) == IF f \in DOMAIN data THEN Number(data[f]) ELSE Undefined

\* data.field++ and data.field--. On a record without the field JavaScript
\* stores NaN, which every sum reads exactly as it reads a missing field.
Incr(data, f) == IF f \in DOMAIN data THEN [data EXCEPT ![f] = @ + 1] ELSE data
Decr(data, f) == IF f \in DOMAIN data THEN [data EXCEPT ![f] = @ - 1] ELSE data

(***************************************************************************)
(* The key stores: an object (or Map) keeps its keys in insertion order, so *)
(* a store is a sequence of [key, val] entries with distinct keys.          *)
(***************************************************************************)
EmptyStore == <<>>

Has(store, k) == \E i \in 1..Len(store) : store[i].key = k

Get(store, k) == store[CHOOSE i \in 1..Len(store) : store[i].key = k].val

Put(store, k, v) ==
  IF Has(store, k)
    THEN [i \in 1..Len(store) |->
            IF store[i].key = k THEN [key |-> k, val |-> v] ELSE store[i]]
    ELSE Append(store, [key |-> k, val |-> v])

Delete(store, k) == SelectSeq(store, LAMBDA e : e.key # k)

Keys(store) == [i \in 1..Len(store) |-> store[i].key]

KeySet(store) == {store[i].key : i \in 1..Len(store)}

(***************************************************************************)
(* Completion records.                                                      *)
(***************************************************************************)
Return(this, v) == [this |-> this, error |-> "none", value |-> v]
Throw(this, e)  == [this |-> this, error |-> e, value |-> Undefined]

InvalidArgumentsGraphError == "InvalidArgumentsGraphError"
NotFoundGraphError         == "NotFoundGraphError"
UsageGraphError            == "UsageGraphError"

(***************************************************************************)
(* Construction.                                                            *)
(***************************************************************************)
TYPES == {"directed", "undirected", "mixed"}

\* new Graph(null, {type, multi, allowSelfLoops, map})
Graph(type, multi, selfLoops, map) ==
  [type      |-> type,
   multi     |-> multi,
   selfLoops |-> selfLoops,
   map       |-> map,
   _order    |-> 0,
   _size     |-> 0,
   _nodes    |-> EmptyStore,
   _edges    |-> EmptyStore,
   _indices  |-> [structure |-> [computed |-> FALSE, synchronized |-> TRUE],
                  neighbors |-> [computed |-> FALSE, synchronized |-> TRUE]]]

(***************************************************************************)
(* Read.                                                                    *)
(***************************************************************************)
hasNode(this, node) == Has(this._nodes, node)

\* hasEdge(edge), the form with one argument.
\* hasEdge(edge) that takes the key of a node for the key of an edge too.
hasEdge1_OrNode(this, edge) ==
  Has(this._edges, edge) \/ Has(this._nodes, edge)

hasEdge1(this, edge) == Has(this._edges, edge)

(***************************************************************************)
(* The structure index (src/indices, which graph.js imports). A node record *)
(* owns up to four registers, "out", "in", "undirectedOut" and              *)
(* "undirectedIn"; a register maps a neighbor key to the set of the edges   *)
(* joining the two nodes, kept in insertion order.                          *)
(***************************************************************************)
INDICES == {"structure", "neighbors"}

REGISTERS == {"out", "in", "undirectedOut", "undirectedIn"}

EmptyRegister == [n \in {} |-> <<>>]

InSeq(x, seq) == \E i \in 1..Len(seq) : seq[i] = x

\* register[neighbor].add(edge) on nodeData[name], creating the register and
\* the set on demand.
AddToRegister(nodeData, name, neighbor, edge) ==
  LET register == IF name \in DOMAIN nodeData THEN nodeData[name] ELSE EmptyRegister
      edges    == IF neighbor \in DOMAIN register THEN register[neighbor] ELSE <<>>
      added    == IF InSeq(edge, edges) THEN edges ELSE Append(edges, edge)
      updated  == [n \in DOMAIN register \cup {neighbor} |->
                     IF n = neighbor THEN added ELSE register[n]]
  IN  [f \in DOMAIN nodeData \cup {name} |->
         IF f = name THEN updated ELSE nodeData[f]]

\* register[neighbor].delete(edge) on nodeData[name], deleting the set of the
\* neighbor once it is empty, and the register once it holds no set.
RemoveFromRegister(nodeData, name, neighbor, edge) ==
  IF name \notin DOMAIN nodeData THEN nodeData
  ELSE
    LET register == nodeData[name]
    IN  IF neighbor \notin DOMAIN register THEN nodeData
        ELSE
          LET left    == SelectSeq(register[neighbor], LAMBDA e : e # edge)
              kept    == IF left = <<>> THEN DOMAIN register \ {neighbor}
                                        ELSE DOMAIN register
              updated == [n \in kept |-> IF n = neighbor THEN left ELSE register[n]]
          IN  IF kept = {}
                THEN [f \in DOMAIN nodeData \ {name} |-> nodeData[f]]
                ELSE [nodeData EXCEPT ![name] = updated]

outKey(data) == IF data.undirected THEN "undirectedOut" ELSE "out"
inKey(data)  == IF data.undirected THEN "undirectedIn" ELSE "in"

\* indices.updateStructureIndex(graph, edge, data)
updateStructureIndex(this, edge, data) ==
  LET n1 == Put(this._nodes, data.source,
                AddToRegister(Get(this._nodes, data.source),
                              outKey(data), data.target, edge))
      n2 == Put(n1, data.target,
                AddToRegister(Get(n1, data.target),
                              inKey(data), data.source, edge))
  IN  [this EXCEPT !._nodes = n2]

\* indices.clearEdgeFromStructureIndex(graph, edge, data)
clearEdgeFromStructureIndex(this, edge, data) ==
  LET n1 == Put(this._nodes, data.source,
                RemoveFromRegister(Get(this._nodes, data.source),
                                   outKey(data), data.target, edge))
      n2 == Put(n1, data.target,
                RemoveFromRegister(Get(n1, data.target),
                                   inKey(data), data.source, edge))
  IN  [this EXCEPT !._nodes = n2]

\* indices.clearStructureIndex(graph): every register of every node is deleted.
clearStructureIndex(this) ==
  [this EXCEPT !._nodes =
     [i \in 1..Len(this._nodes) |->
        [key |-> this._nodes[i].key,
         val |-> [f \in DOMAIN this._nodes[i].val \ REGISTERS |->
                    this._nodes[i].val[f]]]]]

(***************************************************************************)
(* Indexes-related methods.                                                 *)
(***************************************************************************)
_updateIndex(this, name, edge, data) ==
  IF name \notin INDICES THEN Throw(this, InvalidArgumentsGraphError)
  ELSE IF name = "structure"
    THEN IF ~this._indices.structure.computed
           THEN Return(this, Undefined)
           ELSE Return(updateStructureIndex(this, edge, data), Undefined)
    ELSE Return(this, Undefined)

\* _clearEdgeFromIndex that leaves the registers alone.
_clearEdgeFromIndex_Nothing(this, name, edge, data) ==
  IF name \notin INDICES THEN Throw(this, InvalidArgumentsGraphError)
  ELSE Return(this, Undefined)

_clearEdgeFromIndex(this, name, edge, data) ==
  IF name \notin INDICES THEN Throw(this, InvalidArgumentsGraphError)
  ELSE IF name = "structure"
    THEN IF ~this._indices.structure.computed
           THEN Return(this, Undefined)
           ELSE Return(clearEdgeFromStructureIndex(this, edge, data), Undefined)
    ELSE Return(this, Undefined)

\* The loop of computeIndex going through this._edges from the last entry to
\* the first.
RECURSIVE IndexEdgesFrom_Backwards(_, _, _)
IndexEdgesFrom_Backwards(this, name, i) ==
  IF i > Len(this._edges) THEN this
  ELSE LET j == Len(this._edges) - i + 1
       IN  IndexEdgesFrom_Backwards(
             _updateIndex(this, name, this._edges[j].key, this._edges[j].val).this,
             name, i + 1)

\* The loop of computeIndex over this._edges, from entry i on.
RECURSIVE IndexEdgesFrom(_, _, _)
IndexEdgesFrom(this, name, i) ==
  IF i > Len(this._edges) THEN this
  ELSE IndexEdgesFrom(
         _updateIndex(this, name, this._edges[i].key, this._edges[i].val).this,
         name, i + 1)

\* computeIndex without the check of the name: a name that is not
\* 'structure' is passed over as 'neighbors' is.
computeIndex_AnyName(this, name) ==
  IF name = "structure"
    THEN IF this._indices.structure.computed
           THEN Return(this, Undefined)
           ELSE Return(IndexEdgesFrom(
                         [this EXCEPT !._indices.structure.computed = TRUE],
                         name, 1),
                       Undefined)
    ELSE Return(this, Undefined)

\* computeIndex that marks the index computed without reading this._edges.
computeIndex_FlagOnly(this, name) ==
  IF name \notin INDICES THEN Throw(this, InvalidArgumentsGraphError)
  ELSE IF name = "structure"
    THEN Return([this EXCEPT !._indices.structure.computed = TRUE], Undefined)
    ELSE Return(this, Undefined)

computeIndex(this, name) ==
  IF name \notin INDICES THEN Throw(this, InvalidArgumentsGraphError)
  ELSE IF name = "structure"
    THEN IF this._indices.structure.computed
           THEN Return(this, Undefined)
           ELSE Return(IndexEdgesFrom(
                         [this EXCEPT !._indices.structure.computed = TRUE],
                         name, 1),
                       Undefined)
    ELSE Return(this, Undefined)

\* clearIndex that deletes the registers and leaves the index marked computed.
clearIndex_FlagKept(this, name) ==
  IF name \notin INDICES THEN Throw(this, InvalidArgumentsGraphError)
  ELSE IF name = "structure"
    THEN IF ~this._indices.structure.computed
           THEN Return(this, Undefined)
           ELSE Return(clearStructureIndex(this), Undefined)
    ELSE Return(this, Undefined)

clearIndex(this, name) ==
  IF name \notin INDICES THEN Throw(this, InvalidArgumentsGraphError)
  ELSE IF name = "structure"
    THEN IF ~this._indices.structure.computed
           THEN Return(this, Undefined)
           ELSE Return([clearStructureIndex(this)
                          EXCEPT !._indices.structure.computed = FALSE],
                       Undefined)
    ELSE Return(this, Undefined)

(***************************************************************************)
(* Read, continued: the lookups by source and target.                       *)
(***************************************************************************)
\* register[target] of nodeData[name]: the set, or nothing.
Lookup(nodeData, name, target) ==
  IF name \in DOMAIN nodeData /\ target \in DOMAIN nodeData[name]
    THEN [found |-> TRUE, edges |-> nodeData[name][target]]
    ELSE [found |-> FALSE, edges |-> <<>>]

\* The edges variable of hasUndirectedEdge and getUndirectedEdge: the set under
\* undirectedOut if there is one (even an empty one), else the one under
\* undirectedIn.
UndirectedLookup(nodeData, target) ==
  LET first == Lookup(nodeData, "undirectedOut", target)
  IN  IF first.found THEN first ELSE Lookup(nodeData, "undirectedIn", target)

\* hasDirectedEdge(source, target) that also answers for the edges pointing
\* from target to source.
hasDirectedEdge2_EitherDirection(this, source, target) ==
  LET g == computeIndex(this, "structure").this
  IN  IF ~hasNode(g, source) \/ ~hasNode(g, target)
        THEN Return(g, Boolean(FALSE))
        ELSE LET first == Lookup(Get(g._nodes, source), "out", target)
                 edges == IF first.found THEN first
                          ELSE Lookup(Get(g._nodes, source), "in", target)
             IN  IF ~edges.found THEN Return(g, Boolean(FALSE))
                 ELSE Return(g, Boolean(Len(edges.edges) > 0))

\* hasDirectedEdge(source, target) from the line after its call of
\* computeIndex on: g is the graph that call left.
hasDirectedEdgeIndexed(g, source, target) ==
  IF ~hasNode(g, source) \/ ~hasNode(g, target)
    THEN Return(g, Boolean(FALSE))
    ELSE LET edges == Lookup(Get(g._nodes, source), "out", target)
         IN  IF ~edges.found THEN Return(g, Boolean(FALSE))
             ELSE Return(g, Boolean(Len(edges.edges) > 0))

\* hasDirectedEdge(source, target)
hasDirectedEdge2(this, source, target) ==
  hasDirectedEdgeIndexed(computeIndex(this, "structure").this, source, target)

\* hasUndirectedEdge(source, target) that reads the undirectedOut register only.
hasUndirectedEdge2_OutOnly(this, source, target) ==
  LET g == computeIndex(this, "structure").this
  IN  IF ~hasNode(g, source) \/ ~hasNode(g, target)
        THEN Return(g, Boolean(FALSE))
        ELSE LET edges == Lookup(Get(g._nodes, source), "undirectedOut", target)
             IN  IF ~edges.found THEN Return(g, Boolean(FALSE))
                 ELSE Return(g, Boolean(Len(edges.edges) > 0))

\* hasUndirectedEdge(source, target) from the line after its call of
\* computeIndex on: g is the graph that call left.
hasUndirectedEdgeIndexed(g, source, target) ==
  IF ~hasNode(g, source) \/ ~hasNode(g, target)
    THEN Return(g, Boolean(FALSE))
    ELSE LET edges == UndirectedLookup(Get(g._nodes, source), target)
         IN  IF ~edges.found THEN Return(g, Boolean(FALSE))
             ELSE Return(g, Boolean(Len(edges.edges) > 0))

\* hasUndirectedEdge(source, target)
hasUndirectedEdge2(this, source, target) ==
  hasUndirectedEdgeIndexed(computeIndex(this, "structure").this, source, target)

\* hasEdge(source, target) that throws when one of the nodes is missing.
hasEdge2_Throws(this, source, target) ==
  IF ~hasNode(this, source) \/ ~hasNode(this, target)
    THEN Throw(this, NotFoundGraphError)
    ELSE LET first == hasDirectedEdge2(this, source, target)
         IN  IF first.value.b THEN first
             ELSE hasUndirectedEdge2(first.this, source, target)

\* The right operand of the || of hasEdge(source, target): directed is the
\* completion of the left operand, this.hasDirectedEdge(source, target).
OrHasUndirectedEdge(directed, source, target) ==
  IF directed.value.b THEN directed
  ELSE hasUndirectedEdge2(directed.this, source, target)

\* hasEdge(source, target), the form with two arguments:
\* this.hasDirectedEdge(source, target) || this.hasUndirectedEdge(source, target)
hasEdge2(this, source, target) ==
  OrHasUndirectedEdge(hasDirectedEdge2(this, source, target), source, target)

\* edges.first() of a register set that may be missing or empty: the value
\* the get methods return.
FirstOf(edges) ==
  IF ~edges.found THEN Undefined
  ELSE IF Len(edges.edges) = 0 THEN Undefined
  ELSE Key(Head(edges.edges))

\* getDirectedEdge(source, target) from the line after its call of
\* computeIndex on: g is the graph that call left.
getDirectedEdgeIndexed(g, source, target) ==
  IF ~hasNode(g, source) \/ ~hasNode(g, target)
    THEN Return(g, Undefined)
    ELSE Return(g, FirstOf(Lookup(Get(g._nodes, source), "out", target)))

\* getDirectedEdge(source, target)
getDirectedEdge(this, source, target) ==
  getDirectedEdgeIndexed(computeIndex(this, "structure").this, source, target)

\* getUndirectedEdge(source, target) that reads the undirectedOut register only.
getUndirectedEdge_OutOnly(this, source, target) ==
  LET g == computeIndex(this, "structure").this
  IN  IF ~hasNode(g, source) \/ ~hasNode(g, target)
        THEN Return(g, Undefined)
        ELSE Return(g, FirstOf(Lookup(Get(g._nodes, source),
                                      "undirectedOut", target)))

\* getUndirectedEdge(source, target) from the line after its call of
\* computeIndex on: g is the graph that call left.
getUndirectedEdgeIndexed(g, source, target) ==
  IF ~hasNode(g, source) \/ ~hasNode(g, target)
    THEN Return(g, Undefined)
    ELSE Return(g, FirstOf(UndirectedLookup(Get(g._nodes, source), target)))

\* getUndirectedEdge(source, target)
getUndirectedEdge(this, source, target) ==
  getUndirectedEdgeIndexed(computeIndex(this, "structure").this, source, target)

\* getEdge(source, target) from its test of the directed lookup on: directed
\* is the completion of that lookup (nothing when the graph is undirected).
OrGetUndirectedEdge(directed, source, target) ==
  IF TruthyValue(directed.value) THEN directed
  ELSE IF directed.this.type \in {"mixed", "undirected"}
    THEN getUndirectedEdge(directed.this, source, target)
  ELSE directed

\* getEdge(source, target): the directed lookup, and the undirected one when
\* the directed lookup returned a falsy value.
getEdge(this, source, target) ==
  OrGetUndirectedEdge(IF this.type \in {"mixed", "directed"}
                        THEN getDirectedEdge(this, source, target)
                        ELSE Return(this, Undefined),
                      source, target)

\* The selfLoops argument of the degree methods: missing (true by default),
\* a boolean, or something that is not a boolean.
SelfLoopsArgs == {Absent, "true", "false", "1"}

\* degree(node, selfLoops = true)
degree(this, node, selfLoopsArg) ==
  LET selfLoops == IF selfLoopsArg = Absent THEN "true" ELSE selfLoopsArg
  IN  IF selfLoops \notin {"true", "false"}
        THEN Throw(this, InvalidArgumentsGraphError)
      ELSE IF ~hasNode(this, node)
        THEN Throw(this, NotFoundGraphError)
      ELSE
        LET data == Get(this._nodes, node)
        IN  Return(this,
                   Plus(Plus(Plus(Field(data, "outDegree"), Field(data, "inDegree")),
                             Field(data, "undirectedDegree")),
                        IF selfLoops = "true" THEN Field(data, "selfLoops")
                                              ELSE Number(0)))

\* The sum of the degree methods: the counters named, plus data.selfLoops
\* when the flag is true.
\* The sum that adds the self-loops once for each counter it adds.
CounterSum_LoopsPerCounter(data, counters, selfLoops) ==
  LET RECURSIVE Sum(_)
      Sum(i) ==
        LET one == Plus(Field(data, counters[i]),
                        IF selfLoops = "true" THEN Field(data, "selfLoops")
                                              ELSE Number(0))
        IN  IF i = Len(counters) THEN one ELSE Plus(one, Sum(i + 1))
  IN  Sum(1)

CounterSum(data, counters, selfLoops) ==
  LET RECURSIVE Sum(_)
      Sum(i) == IF i = Len(counters) THEN Field(data, counters[i])
                ELSE Plus(Field(data, counters[i]), Sum(i + 1))
  IN  Plus(Sum(1), IF selfLoops = "true" THEN Field(data, "selfLoops")
                                          ELSE Number(0))

\* The body shared by inDegree, outDegree, directedDegree and
\* undirectedDegree, which differ in the counters they add.
DegreeQuery(this, node, selfLoopsArg, counters) ==
  LET selfLoops == IF selfLoopsArg = Absent THEN "true" ELSE selfLoopsArg
  IN  IF selfLoops \notin {"true", "false"}
        THEN Throw(this, InvalidArgumentsGraphError)
      ELSE IF ~hasNode(this, node)
        THEN Throw(this, NotFoundGraphError)
      ELSE Return(this, CounterSum(Get(this._nodes, node), counters, selfLoops))

\* inDegree(node, selfLoops = true)
inDegree(this, node, selfLoopsArg) ==
  DegreeQuery(this, node, selfLoopsArg, <<"inDegree">>)

\* outDegree(node, selfLoops = true)
outDegree(this, node, selfLoopsArg) ==
  DegreeQuery(this, node, selfLoopsArg, <<"outDegree">>)

\* directedDegree(node, selfLoops = true)
directedDegree(this, node, selfLoopsArg) ==
  DegreeQuery(this, node, selfLoopsArg, <<"outDegree", "inDegree">>)

\* undirectedDegree(node, selfLoops = true)
undirectedDegree(this, node, selfLoopsArg) ==
  DegreeQuery(this, node, selfLoopsArg, <<"undirectedDegree">>)

(***************************************************************************)
(* Read, continued: the extremities and the kind of an edge. The methods    *)
(* source, target, undirected and directed are named sourceOf, targetOf,    *)
(* undirectedOf and directedOf here, their own names being those of the     *)
(* parameters of the other methods.                                         *)
(***************************************************************************)
\* An array returned by a method.
Array(items) == [t |-> "array", items |-> items]

\* source(edge)
sourceOf(this, edge) ==
  IF ~hasEdge1(this, edge) THEN Throw(this, NotFoundGraphError)
  ELSE Return(this, Key(Get(this._edges, edge).source))

\* target(edge)
targetOf(this, edge) ==
  IF ~hasEdge1(this, edge) THEN Throw(this, NotFoundGraphError)
  ELSE Return(this, Key(Get(this._edges, edge).target))

\* extremities(edge)
extremities(this, edge) ==
  IF ~hasEdge1(this, edge) THEN Throw(this, NotFoundGraphError)
  ELSE Return(this, Array(<<sourceOf(this, edge).value,
                            targetOf(this, edge).value>>))

\* relatedNode that returns the target of the edge whatever the node.
relatedNode_AlwaysTarget(this, node, edge) ==
  IF ~hasNode(this, node) THEN Throw(this, NotFoundGraphError)
  ELSE IF ~hasEdge1(this, edge) THEN Throw(this, NotFoundGraphError)
  ELSE Return(this, extremities(this, edge).value.items[2])

\* relatedNode(node, edge)
relatedNode(this, node, edge) ==
  IF ~hasNode(this, node) THEN Throw(this, NotFoundGraphError)
  ELSE IF ~hasEdge1(this, edge) THEN Throw(this, NotFoundGraphError)
  ELSE LET node1 == extremities(this, edge).value.items[1]
           node2 == extremities(this, edge).value.items[2]
       IN  Return(this, IF Key(node) = node1 THEN node2 ELSE node1)

\* undirected(edge)
undirectedOf(this, edge) ==
  IF ~hasEdge1(this, edge) THEN Throw(this, NotFoundGraphError)
  ELSE Return(this, Boolean(Get(this._edges, edge).undirected))

\* directed(edge) that returns the flag of the edge as it is.
directedOf_NotNegated(this, edge) ==
  IF ~hasEdge1(this, edge) THEN Throw(this, NotFoundGraphError)
  ELSE Return(this, undirectedOf(this, edge).value)

\* directed(edge)
directedOf(this, edge) ==
  IF ~hasEdge1(this, edge) THEN Throw(this, NotFoundGraphError)
  ELSE Return(this, Boolean(~undirectedOf(this, edge).value.b))

\* hasDirectedEdge(edge), the one-argument form.  The conditional binds
\* looser than &&: with map the answer is this._edges.has(edge) alone,
\* without map it is (edge in this._edges) && this.directed(edge).
hasDirectedEdge1(this, edge) ==
  IF this.map THEN Return(this, Boolean(hasEdge1(this, edge)))
  ELSE IF ~hasEdge1(this, edge) THEN Return(this, Boolean(FALSE))
  ELSE directedOf(this, edge)

\* hasUndirectedEdge(edge), the one-argument form, built the same way.
hasUndirectedEdge1(this, edge) ==
  IF this.map THEN Return(this, Boolean(hasEdge1(this, edge)))
  ELSE IF ~hasEdge1(this, edge) THEN Return(this, Boolean(FALSE))
  ELSE undirectedOf(this, edge)

(***************************************************************************)
(* Mutation.                                                                *)
(***************************************************************************)
\* The counters a new node record gets for the type of the graph.
NewNodeData(this, attributes) ==
  LET base     == [attributes |-> attributes, selfLoops |-> 0]
      directed == IF this.type \in {"mixed", "directed"}
                    THEN base @@ [inDegree |-> 0, outDegree |-> 0]
                    ELSE base
  IN  IF this.type \in {"mixed", "undirected"}
        THEN directed @@ [undirectedDegree |-> 0]
        ELSE directed

\* addNode without the check of an existing node.
addNode_Overwrites(this, node, attributesArg) ==
  IF attributesArg # Absent /\ ~isPlainObject(attributesArg)
    THEN Throw(this, InvalidArgumentsGraphError)
  ELSE
    LET attributes == OrElse(Param(attributesArg), EmptyObject)
        data       == NewNodeData(this, attributes)
    IN  Return([this EXCEPT !._nodes = Put(@, node, data),
                            !._order = @ + 1],
               Key(node))

\* addNode(node, attributes)
addNode(this, node, attributesArg) ==
  IF attributesArg # Absent /\ ~isPlainObject(attributesArg)
    THEN Throw(this, InvalidArgumentsGraphError)
  ELSE IF hasNode(this, node)
    THEN Throw(this, UsageGraphError)
  ELSE
    LET attributes == OrElse(Param(attributesArg), EmptyObject)
        data       == NewNodeData(this, attributes)
    IN  Return([this EXCEPT !._nodes = Put(@, node, data),
                            !._order = @ + 1],
               Key(node))

\* A bunch: an array of node keys, or a value that is no bunch at all.
MaxBunch == 2

Bunch(items) == [valid |-> TRUE, items |-> items]
NoBunch      == [valid |-> FALSE, items |-> <<>>]

Bunches ==
  {NoBunch} \cup
  {Bunch(items) : items \in UNION {[1..n -> NodeIds] : n \in 0..MaxBunch}}

isBunch(bunch) == bunch.valid

\* utils.overBunch(bunch, callback) for the callback of addNodesFrom: the
\* items of the array in order, each with an empty attributes object; a
\* throw of the callback ends the loop and the call.
RECURSIVE overBunchAddNode(_, _, _)
overBunchAddNode(this, items, i) ==
  IF i > Len(items) THEN Return(this, Undefined)
  ELSE LET r == addNode(this, items[i], EmptyObject)
       IN  IF r.error # "none" THEN r
           ELSE overBunchAddNode(r.this, items, i + 1)

\* addNodesFrom(bunch)
addNodesFrom(this, bunch) ==
  IF ~isBunch(bunch) THEN Throw(this, InvalidArgumentsGraphError)
  ELSE overBunchAddNode(this, bunch.items, 1)

\* The counters of _addEdge without the case of a loop.
IncrementCounters_NoLoopCase(nodes, undirected, source, target) ==
  IF undirected
    THEN LET n1 == Put(nodes, source, Incr(Get(nodes, source), "undirectedDegree"))
         IN  Put(n1, target, Incr(Get(n1, target), "undirectedDegree"))
    ELSE LET n1 == Put(nodes, source, Incr(Get(nodes, source), "outDegree"))
         IN  Put(n1, target, Incr(Get(n1, target), "inDegree"))

\* The last step of _addEdge: the counters of the two nodes.
IncrementCounters(nodes, undirected, source, target) ==
  IF source = target
    THEN Put(nodes, source, Incr(Get(nodes, source), "selfLoops"))
  ELSE IF undirected
    THEN LET n1 == Put(nodes, source, Incr(Get(nodes, source), "undirectedDegree"))
         IN  Put(n1, target, Incr(Get(n1, target), "undirectedDegree"))
    ELSE LET n1 == Put(nodes, source, Incr(Get(nodes, source), "outDegree"))
         IN  Put(n1, target, Incr(Get(n1, target), "inDegree"))

\* The loop test of _addEdge with its negation lost.
ForbiddenLoop_Inverted(this, source, target) ==
  this.selfLoops /\ source = target

\* The loop test of _addEdge: !this.selfLoops && source === target
ForbiddenLoop(this, source, target) ==
  ~this.selfLoops /\ source = target

\* _addEdge that counts the edge (this._size++) before the check of a simple
\* graph instead of after it.
_addEdge_SizeFirst(this, name, undirected, edge, source, target, attributesArg) ==
  LET attributes == OrElse(attributesArg, EmptyObject)
  IN
  IF ~undirected /\ this.type = "undirected"
    THEN Throw(this, UsageGraphError)
  ELSE IF undirected /\ this.type = "directed"
    THEN Throw(this, UsageGraphError)
  ELSE IF ~isPlainObject(attributes)
    THEN Throw(this, InvalidArgumentsGraphError)
  ELSE IF ~hasNode(this, source)
    THEN Throw(this, NotFoundGraphError)
  ELSE IF ~hasNode(this, target)
    THEN Throw(this, NotFoundGraphError)
  ELSE IF hasEdge1(this, edge)
    THEN Throw(this, UsageGraphError)
  ELSE IF ForbiddenLoop(this, source, target)
    THEN Throw(this, UsageGraphError)
  ELSE
    LET counted == [this EXCEPT !._size = @ + 1]
        found   == IF this.multi THEN Return(counted, Boolean(FALSE))
                   ELSE IF undirected
                     THEN hasUndirectedEdge2(counted, source, target)
                   ELSE hasDirectedEdge2(counted, source, target)
        g       == found.this
    IN
    IF found.value.b
      THEN Throw(g, UsageGraphError)
    ELSE
      LET data   == [undirected |-> undirected, attributes |-> attributes,
                     source |-> source, target |-> target]
          stored == [g EXCEPT !._edges = Put(@, edge, data),
                              !._nodes = IncrementCounters(@, undirected,
                                                           source, target)]
          r      == _updateIndex(stored, "structure", edge, data)
      IN  IF r.error # "none" THEN r ELSE Return(r.this, Key(edge))
\* The end of _addEdge: r is the completion of its call of _updateIndex.
_addEdgeReturn(r, edge) ==
  IF r.error # "none" THEN r ELSE Return(r.this, Key(edge))

\* _addEdge that stores the edge and leaves a computed index as it was.
_addEdgeStore_IndexStale(g, undirected, edge, source, target, data) ==
  Return([g EXCEPT !._edges = Put(@, edge, data),
                   !._size  = @ + 1,
                   !._nodes = IncrementCounters(@, undirected, source, target)],
         Key(edge))

\* _addEdge from the storing of the edge on: data is the record of the edge.
_addEdgeStore(g, undirected, edge, source, target, data) ==
  _addEdgeReturn(
    _updateIndex([g EXCEPT !._edges = Put(@, edge, data),
                           !._size  = @ + 1,
                           !._nodes = IncrementCounters(@, undirected,
                                                        source, target)],
                 "structure", edge, data),
    edge)

\* _addEdge from the outcome of the check of a simple graph on: found is the
\* completion of the lookup (false in a multigraph, which does not look).
_addEdgeUnlessFound(found, undirected, edge, source, target, attributes) ==
  IF found.value.b
    THEN Throw(found.this, UsageGraphError)
    ELSE _addEdgeStore(found.this, undirected, edge, source, target,
                       [undirected |-> undirected, attributes |-> attributes,
                        source |-> source, target |-> target])

\* _addEdge(name, undirected, edge, source, target, attributes). Every public
\* method passes six arguments, so arguments.length > 5 holds in each call.
_addEdge(this, name, undirected, edge, source, target, attributesArg) ==
  LET attributes == OrElse(attributesArg, EmptyObject)
  IN
  IF ~undirected /\ this.type = "undirected"
    THEN Throw(this, UsageGraphError)
  ELSE IF undirected /\ this.type = "directed"
    THEN Throw(this, UsageGraphError)
  ELSE IF ~isPlainObject(attributes)
    THEN Throw(this, InvalidArgumentsGraphError)
  ELSE IF ~hasNode(this, source)
    THEN Throw(this, NotFoundGraphError)
  ELSE IF ~hasNode(this, target)
    THEN Throw(this, NotFoundGraphError)
  ELSE IF hasEdge1(this, edge)
    THEN Throw(this, UsageGraphError)
  ELSE IF ForbiddenLoop(this, source, target)
    THEN Throw(this, UsageGraphError)
  ELSE
    \* The check of a simple graph goes through the lookup, which computes
    \* the structure index.
    _addEdgeUnlessFound(IF this.multi THEN Return(this, Boolean(FALSE))
                        ELSE IF undirected
                          THEN hasUndirectedEdge2(this, source, target)
                        ELSE hasDirectedEdge2(this, source, target),
                        undirected, edge, source, target, attributes)

addEdgeWithKey(this, edge, source, target, attributesArg) ==
  _addEdge(this, "addEdgeWithKey", this.type = "undirected",
           edge, source, target, Param(attributesArg))

addDirectedEdgeWithKey(this, edge, source, target, attributesArg) ==
  _addEdge(this, "addDirectedEdgeWithKey", FALSE,
           edge, source, target, Param(attributesArg))

\* addUndirectedEdgeWithKey with the kind of addEdgeWithKey.
addUndirectedEdgeWithKey_KindOfGraph(this, edge, source, target, attributesArg) ==
  _addEdge(this, "addUndirectedEdgeWithKey", this.type = "undirected",
           edge, source, target, Param(attributesArg))

addUndirectedEdgeWithKey(this, edge, source, target, attributesArg) ==
  _addEdge(this, "addUndirectedEdgeWithKey", TRUE,
           edge, source, target, Param(attributesArg))

\* The arguments with which the three methods without a key call
\* this._options.edgeKeyGenerator(isUndirected, source, target, attributes).
KeyGeneratorCall(isUndirected, source, target, attributes) ==
  [isUndirected |-> isUndirected, source |-> source, target |-> target,
   attributes |-> attributes]

addEdgeKeyGeneratorCall(this, source, target, attributesArg) ==
  KeyGeneratorCall(this.type = "undirected", source, target, Param(attributesArg))

addDirectedEdgeKeyGeneratorCall(this, source, target, attributesArg) ==
  KeyGeneratorCall(FALSE, source, target, Param(attributesArg))

addUndirectedEdgeKeyGeneratorCall(this, source, target, attributesArg) ==
  KeyGeneratorCall(FALSE, source, target, Param(attributesArg))

\* The three methods without a key: `generated` is the key that
\* this._options.edgeKeyGenerator returned for the call.
\* addEdge that stores an undirected edge in a mixed graph too.
addEdge_UndirectedInMixed(this, generated, source, target, attributesArg) ==
  _addEdge(this, "addEdge", this.type # "directed",
           generated, source, target, Param(attributesArg))

addEdge(this, generated, source, target, attributesArg) ==
  _addEdge(this, "addEdge", this.type = "undirected",
           generated, source, target, Param(attributesArg))

addDirectedEdge(this, generated, source, target, attributesArg) ==
  _addEdge(this, "addDirectedEdge", FALSE,
           generated, source, target, Param(attributesArg))

addUndirectedEdge(this, generated, source, target, attributesArg) ==
  _addEdge(this, "addUndirectedEdge", TRUE,
           generated, source, target, Param(attributesArg))

\* The counters of dropEdge without the case of a loop.
DecrementCounters_NoLoopCase(nodes, undirected, source, target) ==
  IF undirected
    THEN LET n1 == Put(nodes, source, Decr(Get(nodes, source), "undirectedDegree"))
         IN  Put(n1, target, Decr(Get(n1, target), "undirectedDegree"))
    ELSE LET n1 == Put(nodes, source, Decr(Get(nodes, source), "outDegree"))
         IN  Put(n1, target, Decr(Get(n1, target), "inDegree"))

\* The first step undone by dropEdge: the counters of the two nodes.
DecrementCounters(nodes, undirected, source, target) ==
  IF source = target
    THEN Put(nodes, source, Decr(Get(nodes, source), "selfLoops"))
  ELSE IF undirected
    THEN LET n1 == Put(nodes, source, Decr(Get(nodes, source), "undirectedDegree"))
         IN  Put(n1, target, Decr(Get(n1, target), "undirectedDegree"))
    ELSE LET n1 == Put(nodes, source, Decr(Get(nodes, source), "outDegree"))
         IN  Put(n1, target, Decr(Get(n1, target), "inDegree"))

\* dropEdge that leaves _size as it is.
dropEdge_SizeKept(this, edge) ==
  IF ~hasEdge1(this, edge) THEN Throw(this, NotFoundGraphError)
  ELSE
    LET data    == Get(this._edges, edge)
        dropped == [this EXCEPT !._edges = Delete(@, edge),
                                !._nodes = DecrementCounters(@, data.undirected,
                                                             data.source, data.target)]
        r       == _clearEdgeFromIndex(dropped, "structure", edge, data)
    IN  IF r.error # "none" THEN r ELSE Return(r.this, Undefined)

\* dropEdge(edge)
dropEdge(this, edge) ==
  IF ~hasEdge1(this, edge) THEN Throw(this, NotFoundGraphError)
  ELSE
    LET data    == Get(this._edges, edge)
        dropped == [this EXCEPT !._edges = Delete(@, edge),
                                !._size  = @ - 1,
                                !._nodes = DecrementCounters(@, data.undirected,
                                                             data.source, data.target)]
        r       == _clearEdgeFromIndex(dropped, "structure", edge, data)
    IN  IF r.error # "none" THEN r ELSE Return(r.this, Undefined)

\* edges(node) of the edge iteration methods: the keys of the edges attached
\* to the node, each once.
edges(this, node) ==
  Keys(SelectSeq(this._edges,
                 LAMBDA e : e.val.source = node \/ e.val.target = node))

\* The loop of dropNode ending one edge early (i < l - 1).
RECURSIVE DropEdgesFrom_OneShort(_, _, _)
DropEdgesFrom_OneShort(this, attached, i) ==
  IF i > Len(attached) - 1 THEN Return(this, Undefined)
  ELSE LET r == dropEdge(this, attached[i])
       IN  IF r.error # "none" THEN r
           ELSE DropEdgesFrom_OneShort(r.this, attached, i + 1)

\* The loop of dropNode over the edges attached to the node.
RECURSIVE DropEdgesFrom(_, _, _)
DropEdgesFrom(this, attached, i) ==
  IF i > Len(attached) THEN Return(this, Undefined)
  ELSE LET r == dropEdge(this, attached[i])
       IN  IF r.error # "none" THEN r
           ELSE DropEdgesFrom(r.this, attached, i + 1)

\* dropNode that drops the attached edges and keeps the record of the node.
dropNode_RecordKept(this, node) ==
  IF ~hasNode(this, node) THEN Throw(this, NotFoundGraphError)
  ELSE DropEdgesFrom(this, edges(this, node), 1)

\* dropNode from the end of its loop on: r is the completion of the loop.
dropNodeRecord(r, node) ==
  IF r.error # "none" THEN r
  ELSE Return([r.this EXCEPT !._nodes = Delete(@, node),
                             !._order = @ - 1],
              Undefined)

\* dropNode(node)
dropNode(this, node) ==
  IF ~hasNode(this, node) THEN Throw(this, NotFoundGraphError)
  ELSE dropNodeRecord(DropEdgesFrom(this, edges(this, node), 1), node)

\* clear that leaves the indices marked as they are.
clear_IndexKept(this) ==
  Return([this EXCEPT !._edges = EmptyStore,
                      !._nodes = EmptyStore,
                      !._order = 0,
                      !._size  = 0],
         Undefined)

\* clear()
clear(this) ==
  Return([this EXCEPT !._edges = EmptyStore,
                      !._nodes = EmptyStore,
                      !._order = 0,
                      !._size  = 0,
                      !._indices = [name \in DOMAIN @ |->
                                      [@[name] EXCEPT !.computed = FALSE]]],
         Undefined)

(***************************************************************************)
(* Iteration and serialization: the keys of the stores in the order of      *)
(* insertion (nodes, and edges / directedEdges / undirectedEdges of         *)
(* src/iteration), and the export records of src/serialization.             *)
(***************************************************************************)
\* nodes()
nodes(this) == Keys(this._nodes)

\* edges(), directedEdges() and undirectedEdges() without an argument.
allEdges(this) == Keys(this._edges)

directedEdges(this) ==
  Keys(SelectSeq(this._edges, LAMBDA e : ~e.val.undirected))

undirectedEdges(this) ==
  Keys(SelectSeq(this._edges, LAMBDA e : e.val.undirected))

\* serializeNode(key, data) and serializeEdge(key, data)
serializeNode(key, data) == [key |-> key, attributes |-> data.attributes]

serializeEdge(key, data) ==
  [key |-> key, source |-> data.source, target |-> data.target,
   attributes |-> data.attributes, undirected |-> data.undirected]

\* The bunch argument of the export methods: missing, not a bunch, or an
\* array of keys.
MissingBunch == [missing |-> TRUE]

NodeBunchArgs == {MissingBunch} \cup Bunches

EdgeBunchArgs ==
  {MissingBunch, NoBunch} \cup
  {Bunch(items) : items \in UNION {[1..n -> EdgeIds] : n \in 0..MaxBunch}}

\* exportNode(node)
exportNode(this, node) ==
  IF ~hasNode(this, node) THEN Throw(this, NotFoundGraphError)
  ELSE Return(this, serializeNode(node, Get(this._nodes, node)))

\* exportEdge(edge)
exportEdge(this, edge) ==
  IF ~hasEdge1(this, edge) THEN Throw(this, NotFoundGraphError)
  ELSE Return(this, serializeEdge(edge, Get(this._edges, edge)))

\* The predicate argument of _exportEdges: null, edge => this.directed(edge)
\* or edge => this.undirected(edge), and the test !predicate || predicate(edge).
Keeps(this, predicate, edge) ==
  CASE predicate = "null" -> TRUE
    [] predicate = "edge => this.directed(edge)" ->
         directedOf(this, edge).value.b
    [] predicate = "edge => this.undirected(edge)" ->
         undirectedOf(this, edge).value.b

\* The keys of a bunch up to the first one that is not in the store, which
\* makes the callback of overBunch throw; of the others, those that the
\* predicate keeps (exportNodes has no predicate and keeps them all).
RECURSIVE overBunchExport(_, _, _, _, _)
overBunchExport(this, store, items, predicate, i) ==
  IF i > Len(items) THEN Return(this, <<>>)
  ELSE IF ~Has(store, items[i]) THEN Throw(this, NotFoundGraphError)
  ELSE LET rest == overBunchExport(this, store, items, predicate, i + 1)
       IN  IF rest.error # "none" THEN rest
           ELSE Return(this, IF Keeps(this, predicate, items[i])
                               THEN <<items[i]>> \o rest.value
                               ELSE rest.value)

\* exportNodes(bunch)
exportNodes(this, bunch) ==
  LET keys == IF bunch = MissingBunch THEN Return(this, nodes(this))
              ELSE IF ~isBunch(bunch) THEN Throw(this, InvalidArgumentsGraphError)
              ELSE overBunchExport(this, this._nodes, bunch.items, "null", 1)
  IN  IF keys.error # "none" THEN keys
      ELSE Return(this, [i \in 1..Len(keys.value) |->
                           exportNode(this, keys.value[i]).value])

\* _exportEdges(name, predicate, bunch); a null predicate keeps every edge.
_exportEdges(this, name, predicate, bunch) ==
  LET keys == IF bunch = MissingBunch
                THEN Return(this,
                            IF name = "exportEdges" THEN allEdges(this)
                            ELSE IF name = "exportDirectedEdges"
                              THEN directedEdges(this)
                            ELSE undirectedEdges(this))
              ELSE IF ~isBunch(bunch) THEN Throw(this, InvalidArgumentsGraphError)
              ELSE overBunchExport(this, this._edges, bunch.items, predicate, 1)
  IN  IF keys.error # "none" THEN keys
      ELSE Return(this, [i \in 1..Len(keys.value) |->
                           exportEdge(this, keys.value[i]).value])

exportEdges(this, bunch) ==
  _exportEdges(this, "exportEdges", "null", bunch)

exportDirectedEdges(this, bunch) ==
  _exportEdges(this, "exportDirectedEdges", "edge => this.directed(edge)", bunch)

exportUndirectedEdges(this, bunch) ==
  _exportEdges(this, "exportUndirectedEdges", "edge => this.undirected(edge)",
               bunch)

\* export that takes the directed edges only.
export_DirectedEdgesOnly(this) ==
  Return(this, [nodes |-> exportNodes(this, MissingBunch).value,
                edges |-> exportDirectedEdges(this, MissingBunch).value])

\* export()
export(this) ==
  Return(this, [nodes |-> exportNodes(this, MissingBunch).value,
                edges |-> exportEdges(this, MissingBunch).value])

(***************************************************************************)
(* The state: one graph, built with some options.                           *)
(***************************************************************************)
VARIABLES type, multi, selfLoops, map, _order, _size, _nodes, _edges, _indices

vars == <<type, multi, selfLoops, map, _order, _size, _nodes, _edges, _indices>>

\* The graph as the methods see it.
self ==
  [type      |-> type,
   multi     |-> multi,
   selfLoops |-> selfLoops,
   map       |-> map,
   _order    |-> _order,
   _size     |-> _size,
   _nodes    |-> _nodes,
   _edges    |-> _edges,
   _indices  |-> _indices]

Init ==
  \E t \in TYPES, m \in BOOLEAN, s \in BOOLEAN, keyed \in BOOLEAN :
    LET g == Graph(t, m, s, keyed)
    IN  /\ type = g.type
        /\ multi = g.multi
        /\ selfLoops = g.selfLoops
        /\ map = g.map
        /\ _order = g._order
        /\ _size = g._size
        /\ _nodes = g._nodes
        /\ _edges = g._edges
        /\ _indices = g._indices

\* A call completes with r: what it wrote to the graph stays, whether it
\* returned or threw.
Completes(r) ==
  /\ _order' = r.this._order
  /\ _size' = r.this._size
  /\ _nodes' = r.this._nodes
  /\ _edges' = r.this._edges
  /\ _indices' = r.this._indices
  /\ UNCHANGED <<type, multi, selfLoops, map>>

AddNode ==
  \E node \in NodeIds, attributes \in AttributeArgs :
    Completes(addNode(self, node, attributes))

AddNodesFrom ==
  \E bunch \in Bunches :
    Completes(addNodesFrom(self, bunch))

AddEdgeWithKey ==
  \E edge \in EdgeIds, source \in NodeIds, target \in NodeIds,
     attributes \in AttributeArgs :
    Completes(addEdgeWithKey(self, edge, source, target, attributes))

AddDirectedEdgeWithKey ==
  \E edge \in EdgeIds, source \in NodeIds, target \in NodeIds,
     attributes \in AttributeArgs :
    Completes(addDirectedEdgeWithKey(self, edge, source, target, attributes))

AddUndirectedEdgeWithKey ==
  \E edge \in EdgeIds, source \in NodeIds, target \in NodeIds,
     attributes \in AttributeArgs :
    Completes(addUndirectedEdgeWithKey(self, edge, source, target, attributes))

AddEdge ==
  \E generated \in EdgeIds, source \in NodeIds, target \in NodeIds,
     attributes \in AttributeArgs :
    Completes(addEdge(self, generated, source, target, attributes))

AddDirectedEdge ==
  \E generated \in EdgeIds, source \in NodeIds, target \in NodeIds,
     attributes \in AttributeArgs :
    Completes(addDirectedEdge(self, generated, source, target, attributes))

AddUndirectedEdge ==
  \E generated \in EdgeIds, source \in NodeIds, target \in NodeIds,
     attributes \in AttributeArgs :
    Completes(addUndirectedEdge(self, generated, source, target, attributes))

DropEdge ==
  \E edge \in EdgeIds :
    Completes(dropEdge(self, edge))

DropNode ==
  \E node \in NodeIds :
    Completes(dropNode(self, node))

Clear == Completes(clear(self))

\* The index names of the callers: the two of this._indices and an unknown one.
IndexNames == {"structure", "neighbors", "unknown"}

ComputeIndex ==
  \E name \in IndexNames :
    Completes(computeIndex(self, name))

ClearIndex ==
  \E name \in IndexNames :
    Completes(clearIndex(self, name))

HasDirectedEdge ==
  \E source \in NodeIds, target \in NodeIds :
    Completes(hasDirectedEdge2(self, source, target))

HasUndirectedEdge ==
  \E source \in NodeIds, target \in NodeIds :
    Completes(hasUndirectedEdge2(self, source, target))

GetDirectedEdge ==
  \E source \in NodeIds, target \in NodeIds :
    Completes(getDirectedEdge(self, source, target))

GetUndirectedEdge ==
  \E source \in NodeIds, target \in NodeIds :
    Completes(getUndirectedEdge(self, source, target))

GetEdge ==
  \E source \in NodeIds, target \in NodeIds :
    Completes(getEdge(self, source, target))

HasDirectedEdge1 ==
  \E edge \in EdgeIds : Completes(hasDirectedEdge1(self, edge))

HasUndirectedEdge1 ==
  \E edge \in EdgeIds : Completes(hasUndirectedEdge1(self, edge))

HasEdge ==
  \E source \in NodeIds, target \in NodeIds :
    Completes(hasEdge2(self, source, target))

InDegree ==
  \E node \in NodeIds, flag \in SelfLoopsArgs :
    Completes(inDegree(self, node, flag))

OutDegree ==
  \E node \in NodeIds, flag \in SelfLoopsArgs :
    Completes(outDegree(self, node, flag))

DirectedDegree ==
  \E node \in NodeIds, flag \in SelfLoopsArgs :
    Completes(directedDegree(self, node, flag))

UndirectedDegree ==
  \E node \in NodeIds, flag \in SelfLoopsArgs :
    Completes(undirectedDegree(self, node, flag))

Source ==
  \E edge \in EdgeIds :
    Completes(sourceOf(self, edge))

Target ==
  \E edge \in EdgeIds :
    Completes(targetOf(self, edge))

Extremities ==
  \E edge \in EdgeIds :
    Completes(extremities(self, edge))

RelatedNode ==
  \E node \in NodeIds, edge \in EdgeIds :
    Completes(relatedNode(self, node, edge))

Undirected ==
  \E edge \in EdgeIds :
    Completes(undirectedOf(self, edge))

Directed ==
  \E edge \in EdgeIds :
    Completes(directedOf(self, edge))

ExportNodes ==
  \E bunch \in NodeBunchArgs :
    Completes(exportNodes(self, bunch))

ExportEdges ==
  \E bunch \in EdgeBunchArgs :
    \/ Completes(exportEdges(self, bunch))
    \/ Completes(exportDirectedEdges(self, bunch))
    \/ Completes(exportUndirectedEdges(self, bunch))

Export == Completes(export(self))

Degree ==
  \E node \in NodeIds, flag \in SelfLoopsArgs :
    Completes(degree(self, node, flag))

Next ==
  \/ AddNode
  \/ AddNodesFrom
  \/ AddEdgeWithKey
  \/ AddDirectedEdgeWithKey
  \/ AddUndirectedEdgeWithKey
  \/ AddEdge
  \/ AddDirectedEdge
  \/ AddUndirectedEdge
  \/ DropEdge
  \/ DropNode
  \/ Clear
  \/ ComputeIndex
  \/ ClearIndex
  \/ HasDirectedEdge
  \/ HasUndirectedEdge
  \/ HasDirectedEdge1
  \/ HasUndirectedEdge1
  \/ GetDirectedEdge
  \/ GetUndirectedEdge
  \/ GetEdge
  \/ HasEdge
  \/ InDegree
  \/ OutDegree
  \/ DirectedDegree
  \/ UndirectedDegree
  \/ Source
  \/ Target
  \/ Extremities
  \/ RelatedNode
  \/ Undirected
  \/ Directed
  \/ ExportNodes
  \/ ExportEdges
  \/ Export
  \/ Degree

Spec == Init /\ [][Next]_vars

(***************************************************************************)
(* What the properties below speak of.                                      *)
(***************************************************************************)
LiveNodes == KeySet(_nodes)
LiveEdges == KeySet(_edges)

NodeData(n) == Get(_nodes, n)
EdgeData(e) == Get(_edges, e)

Computed == _indices.structure.computed

\* The live directed edges from s to t, and the live undirected edges stored
\* with source s and target t.
DirectedFromTo(s, t) ==
  {e \in LiveEdges : /\ ~EdgeData(e).undirected
                     /\ EdgeData(e).source = s
                     /\ EdgeData(e).target = t}

UndirectedFromTo(s, t) ==
  {e \in LiveEdges : /\ EdgeData(e).undirected
                     /\ EdgeData(e).source = s
                     /\ EdgeData(e).target = t}

\* The live undirected edges joining a and b, stored either way round.
UndirectedBetween(a, b) == UndirectedFromTo(a, b) \cup UndirectedFromTo(b, a)

\* The live edges of one kind that connect the pair as a new edge of that
\* kind from s to t would.
SameKindConnecting(undirected, s, t) ==
  IF undirected THEN UndirectedBetween(s, t) ELSE DirectedFromTo(s, t)

\* The edge keys in the register `name` of node n under the neighbor t.
Registered(n, name, t) ==
  LET found == Lookup(NodeData(n), name, t)
  IN  {found.edges[i] : i \in 1..Len(found.edges)}

IsLoop(e) == EdgeData(e).source = EdgeData(e).target

\* The add-edge methods: every call add(edge, source, target, attributes) of
\* one of the six, with the kind of edge it asks for.
AddEdgeMethods ==
  {"addEdgeWithKey", "addDirectedEdgeWithKey", "addUndirectedEdgeWithKey",
   "addEdge", "addDirectedEdge", "addUndirectedEdge"}

CallAddEdge(method, edge, source, target, attributes) ==
  CASE method = "addEdgeWithKey" ->
         addEdgeWithKey(self, edge, source, target, attributes)
    [] method = "addDirectedEdgeWithKey" ->
         addDirectedEdgeWithKey(self, edge, source, target, attributes)
    [] method = "addUndirectedEdgeWithKey" ->
         addUndirectedEdgeWithKey(self, edge, source, target, attributes)
    [] method = "addEdge" ->
         addEdge(self, edge, source, target, attributes)
    [] method = "addDirectedEdge" ->
         addDirectedEdge(self, edge, source, target, attributes)
    [] method = "addUndirectedEdge" ->
         addUndirectedEdge(self, edge, source, target, attributes)

\* The kind a method asks for: the two general methods ask for the kind of
\* the graph, directed in a mixed graph.
AsksUndirected(method) ==
  IF method \in {"addUndirectedEdgeWithKey", "addUndirectedEdge"} THEN TRUE
  ELSE IF method \in {"addDirectedEdgeWithKey", "addDirectedEdge"} THEN FALSE
  ELSE type = "undirected"

\* The rules of an add-edge call, in the order of the specification.
KindIncompatible(method) ==
  \/ AsksUndirected(method) /\ type = "directed"
  \/ ~AsksUndirected(method) /\ type = "undirected"

AttributesInvalid(attributes) == attributes \notin {Absent, EmptyObject}

\* The entity store and the counters are those of the state: the call wrote
\* nothing to them.
StoreUntouched(r) ==
  /\ r.this._order = _order
  /\ r.this._size = _size
  /\ r.this._edges = _edges
  /\ Keys(r.this._nodes) = Keys(_nodes)

(***************************************************************************)
(* C1. In every reachable state, whatever calls were made and whether they  *)
(* returned or threw, order is the number of node records in the store and  *)
(* size is the number of edge records in the store.                         *)
(***************************************************************************)
C1_OrderAndSizeCountRecords ==
  /\ _order = Cardinality(LiveNodes)
  /\ _size = Cardinality(LiveEdges)
  /\ Len(_nodes) = Cardinality(LiveNodes)
  /\ Len(_edges) = Cardinality(LiveEdges)

\* Two nodes and two edges are live, and dropping one of the nodes leaves a
\* node and an edge, counted as such.
C1_Witness ==
  /\ _order = 2
  /\ _size = 2
  /\ \E n \in LiveNodes :
       LET r == dropNode(self, n)
       IN  /\ r.error = "none"
           /\ r.this._order = 1
           /\ Len(r.this._nodes) = 1
           /\ r.this._size = 1
           /\ Len(r.this._edges) = 1

(***************************************************************************)
(* C2. In every reachable state the source and the target of every stored   *)
(* edge are nodes of the store: no edge outlives one of its endpoints.      *)
(***************************************************************************)
C2_NoDanglingEdge ==
  \A e \in LiveEdges :
    /\ EdgeData(e).source \in LiveNodes
    /\ EdgeData(e).target \in LiveNodes

\* A node with two attached edges is live, and dropping it removes both
\* edges and leaves the other node.
C2_Witness ==
  \E n \in LiveNodes :
    /\ Len(edges(self, n)) = 2
    /\ _order = 2
    /\ LET r == dropNode(self, n)
       IN  /\ r.error = "none"
           /\ r.this._size = 0
           /\ r.this._order = 1

(***************************************************************************)
(* C3. In every reachable state where the structure index is computed, the  *)
(* registers hold exactly the stored edges: a key is in the out register of *)
(* s under t, and in the in register of t under s, iff it is a live         *)
(* directed edge from s to t; it is in the undirectedOut register of s      *)
(* under t, and in the undirectedIn register of t under s, iff it is a live *)
(* undirected edge stored with source s and target t. No register holds a   *)
(* dropped edge, none lacks a live one.                                     *)
(***************************************************************************)
C3_IndexHoldsExactlyTheEdges ==
  Computed =>
    \A s \in LiveNodes :
      /\ \A name \in REGISTERS \cap DOMAIN NodeData(s) :
           DOMAIN NodeData(s)[name] \subseteq LiveNodes
      /\ \A t \in LiveNodes :
           /\ Registered(s, "out", t) = DirectedFromTo(s, t)
           /\ Registered(t, "in", s) = DirectedFromTo(s, t)
           /\ Registered(s, "undirectedOut", t) = UndirectedFromTo(s, t)
           /\ Registered(t, "undirectedIn", s) = UndirectedFromTo(s, t)

\* The index is computed and registers two directed edges from one node to
\* another; dropping one of them leaves the other alone in the register.
C3_Witness ==
  /\ Computed
  /\ \E s \in LiveNodes, t \in LiveNodes :
       /\ s # t
       /\ Cardinality(Registered(s, "out", t)) = 2
       /\ \E e \in Registered(s, "out", t) :
            LET r == dropEdge(self, e)
            IN  /\ r.error = "none"
                /\ r.this._indices.structure.computed
                /\ Len(Lookup(Get(r.this._nodes, s), "out", t).edges) = 1

(***************************************************************************)
(* C4. In every reachable state and for every live node n, each counter     *)
(* that n has matches the stored edges: outDegree is the number of live     *)
(* directed edges from n that are no loops, inDegree the number of those to *)
(* n, undirectedDegree the number of live undirected edges at n that are no *)
(* loops, selfLoops the number of live edges of either kind from n to n,    *)
(* each counted once. No counter is negative.                               *)
(***************************************************************************)
C4_CountersMatchEdges ==
  \A n \in LiveNodes :
    LET data == NodeData(n)
    IN  /\ "outDegree" \in DOMAIN data =>
             data.outDegree =
               Cardinality({e \in LiveEdges : /\ ~EdgeData(e).undirected
                                              /\ ~IsLoop(e)
                                              /\ EdgeData(e).source = n})
        /\ "inDegree" \in DOMAIN data =>
             data.inDegree =
               Cardinality({e \in LiveEdges : /\ ~EdgeData(e).undirected
                                              /\ ~IsLoop(e)
                                              /\ EdgeData(e).target = n})
        /\ "undirectedDegree" \in DOMAIN data =>
             data.undirectedDegree =
               Cardinality({e \in LiveEdges : /\ EdgeData(e).undirected
                                              /\ ~IsLoop(e)
                                              /\ n \in {EdgeData(e).source,
                                                        EdgeData(e).target}})
        /\ data.selfLoops =
             Cardinality({e \in LiveEdges : IsLoop(e) /\ EdgeData(e).source = n})

\* A node of a mixed graph carries a loop and an undirected edge to the
\* other node.
C4_Witness ==
  /\ type = "mixed"
  /\ _size = 2
  /\ \E n \in LiveNodes :
       /\ NodeData(n).selfLoops = 1
       /\ NodeData(n).undirectedDegree = 1
       /\ NodeData(n).outDegree = 0

(***************************************************************************)
(* C5. For a graph of every type and every live node n, degree(n) returns   *)
(* the number of live edges at n that are no loops plus the number of loops *)
(* on n. (The code returns NaN in a directed and in an undirected graph,    *)
(* whose node records lack one of the counters that degree adds up.)        *)
(***************************************************************************)
C5_DegreeCountsIncidentEdges ==
  \A n \in LiveNodes :
    degree(self, n, Absent).value =
      Number(Cardinality({e \in LiveEdges : n \in {EdgeData(e).source,
                                                   EdgeData(e).target}}))

C8_EveryLoopCallIsAUsageError ==
  ~selfLoops =>
    \A method \in AddEdgeMethods, edge \in EdgeIds, n \in NodeIds,
       attributes \in AttributeArgs :
      CallAddEdge(method, edge, n, n, attributes).error = UsageGraphError

(***************************************************************************)
(* C8, amended. In a graph built with allowSelfLoops = false every add-edge *)
(* call with source = target is refused and stores nothing, with a usage    *)
(* error whenever the node is live and the attributes are missing or a      *)
(* plain object (a call on a node that is not live is refused with a        *)
(* not-found error first), so no reachable state holds an edge whose source *)
(* is its target. With allowSelfLoops = true such a call is carried out and *)
(* the loop stored when no other rule refuses it.                           *)
(***************************************************************************)
C8_LoopsRefusedWhenForbidden ==
  /\ ~selfLoops =>
       /\ \A e \in LiveEdges : ~IsLoop(e)
       /\ \A method \in AddEdgeMethods, edge \in EdgeIds, n \in NodeIds,
             attributes \in AttributeArgs :
            LET r == CallAddEdge(method, edge, n, n, attributes)
            IN  /\ r.error # "none"
                /\ StoreUntouched(r)
                /\ (n \in LiveNodes /\ ~AttributesInvalid(attributes)) =>
                     r.error = UsageGraphError
                /\ (n \notin LiveNodes /\ ~AttributesInvalid(attributes)
                      /\ ~KindIncompatible(method)) =>
                     r.error = NotFoundGraphError
  /\ selfLoops =>
       \A method \in AddEdgeMethods, edge \in EdgeIds \ LiveEdges,
          n \in LiveNodes, attributes \in {Absent, EmptyObject} :
         (/\ ~KindIncompatible(method)
          /\ (multi \/ SameKindConnecting(AsksUndirected(method), n, n) = {})) =>
           LET r == CallAddEdge(method, edge, n, n, attributes)
           IN  /\ r.error = "none"
               /\ Get(r.this._edges, edge).source = n
               /\ Get(r.this._edges, edge).target = n

\* A graph that forbids loops holds an edge, and a loop on a live node under
\* a free key is refused with a usage error.
C8_Witness ==
  /\ ~selfLoops
  /\ _size = 1
  /\ type = "mixed"
  /\ multi
  /\ \E n \in LiveNodes, edge \in EdgeIds \ LiveEdges :
       addDirectedEdgeWithKey(self, edge, n, n, Absent).error = UsageGraphError

(***************************************************************************)
(* C9. A graph of type directed never holds an undirected edge and a graph  *)
(* of type undirected never holds a directed one: an add-edge call of the   *)
(* other kind is refused with a usage error in every state, whatever the    *)
(* key, the nodes and the attributes it is given, and stores nothing.       *)
(***************************************************************************)
C9_OtherKindRefused ==
  /\ type = "directed" => \A e \in LiveEdges : ~EdgeData(e).undirected
  /\ type = "undirected" => \A e \in LiveEdges : EdgeData(e).undirected
  /\ \A edge \in EdgeIds, s \in NodeIds, t \in NodeIds,
        attributes \in AttributeArgs :
       /\ type = "directed" =>
            \A method \in {"addUndirectedEdgeWithKey", "addUndirectedEdge"} :
              LET r == CallAddEdge(method, edge, s, t, attributes)
              IN  r.error = UsageGraphError /\ r.this = self
       /\ type = "undirected" =>
            \A method \in {"addDirectedEdgeWithKey", "addDirectedEdge"} :
              LET r == CallAddEdge(method, edge, s, t, attributes)
              IN  r.error = UsageGraphError /\ r.this = self

\* A directed graph holds an edge, and an undirected edge between two live
\* nodes under a free key is refused with a usage error.
C9_Witness ==
  /\ type = "directed"
  /\ _size = 1
  /\ \E s \in LiveNodes, t \in LiveNodes, edge \in EdgeIds \ LiveEdges :
       LET r == addUndirectedEdgeWithKey(self, edge, s, t, Absent)
       IN  r.error = UsageGraphError /\ r.this = self

(***************************************************************************)
(* C10. An add-edge call that breaks several rules reports the error of the *)
(* first rule it breaks, in the order: kind not allowed by the type (usage  *)
(* error), attributes given and not a plain object (invalid arguments),     *)
(* source not live (not found), target not live (not found), key in use     *)
(* (usage error), forbidden loop (usage error), parallel edge in a simple   *)
(* graph (usage error). (The code lets the falsy attributes null, false, 0  *)
(* and "" through the second rule, see C25, so a call that gives null and   *)
(* names a missing node reports not found.)                                 *)
(***************************************************************************)
C10_FirstBrokenRuleIsReported ==
  \A method \in AddEdgeMethods, edge \in EdgeIds, s \in NodeIds, t \in NodeIds,
     attributes \in AttributeArgs :
    LET r == CallAddEdge(method, edge, s, t, attributes)
    IN  r.error =
          IF KindIncompatible(method) THEN UsageGraphError
          ELSE IF AttributesInvalid(attributes) THEN InvalidArgumentsGraphError
          ELSE IF s \notin LiveNodes THEN NotFoundGraphError
          ELSE IF t \notin LiveNodes THEN NotFoundGraphError
          ELSE IF edge \in LiveEdges THEN UsageGraphError
          ELSE IF ~selfLoops /\ s = t THEN UsageGraphError
          ELSE IF ~multi /\ SameKindConnecting(AsksUndirected(method), s, t) # {}
            THEN UsageGraphError
          ELSE "none"

(***************************************************************************)
(* What the properties of the failed calls and of the index speak of.       *)
(***************************************************************************)
\* The entity store of a graph: order, size, the edge records, and the node
\* records without their registers (the counters and the attributes).
EntityStore(g) ==
  [order |-> g._order,
   size  |-> g._size,
   edges |-> g._edges,
   nodes |-> [i \in 1..Len(g._nodes) |->
                [key |-> g._nodes[i].key,
                 val |-> [f \in DOMAIN g._nodes[i].val \ REGISTERS |->
                            g._nodes[i].val[f]]]]]

\* No node record of the graph owns a register.
NoRegister(g) ==
  \A i \in 1..Len(g._nodes) : DOMAIN g._nodes[i].val \cap REGISTERS = {}

(***************************************************************************)
(* C11. An add-edge call that is refused, for whichever of the seven rules, *)
(* leaves the entity store as it was: the nodes, the edges, order, size,    *)
(* every counter and every attribute mapping.                               *)
(***************************************************************************)
C11_RefusedAddLeavesTheStore ==
  \A method \in AddEdgeMethods, edge \in EdgeIds, s \in NodeIds, t \in NodeIds,
     attributes \in AttributeArgs :
    LET r == CallAddEdge(method, edge, s, t, attributes)
    IN  r.error # "none" => EntityStore(r.this) = EntityStore(self)

\* A simple graph holds an edge and its index is not computed; a second edge
\* on the same pair is refused, and the refused call wrote to the graph
\* without touching the entity store.
C11_Witness ==
  /\ ~multi
  /\ ~Computed
  /\ _size = 1
  /\ \E method \in AddEdgeMethods, edge \in EdgeIds \ LiveEdges,
        s \in LiveNodes, t \in LiveNodes :
       LET r == CallAddEdge(method, edge, s, t, Absent)
       IN  /\ r.error = UsageGraphError
           /\ r.this # self
           /\ EntityStore(r.this) = EntityStore(self)

(***************************************************************************)
(* C12. A refused add-edge call leaves the structure index in the state it  *)
(* had before the call: an index that was not computed is still not         *)
(* computed and no register was created. (The code runs the check of a      *)
(* simple graph through hasDirectedEdge / hasUndirectedEdge, which compute  *)
(* the index before the call is refused.)                                   *)
(***************************************************************************)
C12_RefusedAddLeavesTheIndex ==
  \A method \in AddEdgeMethods, edge \in EdgeIds, s \in NodeIds, t \in NodeIds,
     attributes \in AttributeArgs :
    LET r == CallAddEdge(method, edge, s, t, attributes)
    IN  r.error # "none" =>
          /\ r.this._indices = _indices
          /\ r.this._nodes = _nodes

(***************************************************************************)
(* C13. Whether multi is true or false: when the structure index is not     *)
(* computed, a successful addNode, add-edge or dropEdge call leaves it not  *)
(* computed, and no node owns a register afterwards. (In a graph with multi *)
(* = false the code computes the index in every add-edge call that reaches  *)
(* the check of a simple graph.)                                            *)
(***************************************************************************)
C13_MutationLeavesUncomputedIndex ==
  ~Computed =>
    /\ \A node \in NodeIds, attributes \in AttributeArgs :
         LET r == addNode(self, node, attributes)
         IN  r.error = "none" =>
               ~r.this._indices.structure.computed /\ NoRegister(r.this)
    /\ \A method \in AddEdgeMethods, edge \in EdgeIds, s \in NodeIds,
          t \in NodeIds, attributes \in AttributeArgs :
         LET r == CallAddEdge(method, edge, s, t, attributes)
         IN  r.error = "none" =>
               ~r.this._indices.structure.computed /\ NoRegister(r.this)
    /\ \A edge \in EdgeIds :
         LET r == dropEdge(self, edge)
         IN  r.error = "none" =>
               ~r.this._indices.structure.computed /\ NoRegister(r.this)

(***************************************************************************)
(* C14. In every reachable state and for all live nodes s and t,            *)
(* hasDirectedEdge(s, t) is true iff a live directed edge has source s and  *)
(* target t: an edge from t to s alone, or an undirected edge between the   *)
(* two, does not make it true.                                              *)
(***************************************************************************)
C14_HasDirectedEdgeIsExact ==
  \A s \in LiveNodes, t \in LiveNodes :
    hasDirectedEdge2(self, s, t).value = Boolean(DirectedFromTo(s, t) # {})

\* The index is not computed; a directed edge s->t and an undirected edge
\* between s and t are live; the lookup answers true from s to t and false
\* from t to s.
C14_Witness ==
  /\ ~Computed
  /\ \E s \in LiveNodes, t \in LiveNodes :
       /\ s # t
       /\ DirectedFromTo(s, t) # {}
       /\ UndirectedBetween(s, t) # {}
       /\ hasDirectedEdge2(self, s, t).value = Boolean(TRUE)
       /\ hasDirectedEdge2(self, t, s).value = Boolean(FALSE)

(***************************************************************************)
(* C15. In every reachable state, of simple and of multi graphs, and for    *)
(* all live nodes a and b: hasUndirectedEdge(a, b) and hasUndirectedEdge(b, *)
(* a) are both true iff a live undirected edge joins a and b, stored either *)
(* way round, and getUndirectedEdge(a, b) returns such an edge in that case *)
(* and nothing otherwise. After the undirected edge u1 is added from A to   *)
(* B, getUndirectedEdge(B, A) returns u1.                                   *)
(***************************************************************************)
C15_UndirectedLookupIsSymmetric ==
  /\ \A a \in LiveNodes, b \in LiveNodes :
       LET joined == UndirectedBetween(a, b) # {}
           got    == getUndirectedEdge(self, a, b).value
       IN  /\ hasUndirectedEdge2(self, a, b).value = Boolean(joined)
           /\ hasUndirectedEdge2(self, b, a).value = Boolean(joined)
           /\ IF joined
                THEN got.t = "key" /\ got.k \in UndirectedBetween(a, b)
                ELSE got = Undefined
  /\ \A u1 \in EdgeIds, a \in NodeIds, b \in NodeIds :
       LET r == addUndirectedEdgeWithKey(self, u1, a, b, Absent)
       IN  (r.error = "none" /\ UndirectedBetween(a, b) = {}) =>
             getUndirectedEdge(r.this, b, a).value = Key(u1)

\* A multi graph holds undirected edges stored with source a and target b
\* and none stored the other way round; the lookup from b to a finds one.
C15_Witness ==
  /\ multi
  /\ \E a \in LiveNodes, b \in LiveNodes :
       /\ a # b
       /\ Cardinality(UndirectedFromTo(a, b)) = 2
       /\ UndirectedFromTo(b, a) = {}
       /\ hasUndirectedEdge2(self, b, a).value = Boolean(TRUE)
       /\ getUndirectedEdge(self, b, a).value.t = "key"

\* Of a set of live edges, the one added earliest: this._edges keeps the
\* edges in the order they were added. Nothing for the empty set.
Earliest(matching) ==
  IF matching = {} THEN Undefined
  ELSE LET i == CHOOSE i \in 1..Len(_edges) :
                  /\ _edges[i].key \in matching
                  /\ \A j \in 1..(i - 1) : _edges[j].key \notin matching
       IN  Key(_edges[i].key)

(***************************************************************************)
(* C16, as stated: getDirectedEdge(s, t) and getUndirectedEdge(s, t) return *)
(* the live matching edge that was added earliest, or nothing when no live  *)
(* edge matches, whether the index was computed before or after the edges   *)
(* were added.                                                              *)
(***************************************************************************)
C16_EarliestLiveMatchIsReturned ==
  \A s \in LiveNodes, t \in LiveNodes :
    /\ getDirectedEdge(self, s, t).value = Earliest(DirectedFromTo(s, t))
    /\ getUndirectedEdge(self, s, t).value = Earliest(UndirectedBetween(s, t))

(***************************************************************************)
(* C16, amended. getDirectedEdge(s, t) returns the live directed edge s->t  *)
(* that was added earliest, or nothing. getUndirectedEdge(s, t) returns the *)
(* earliest added of the live undirected edges stored with source s and     *)
(* target t when there is one, else the earliest added of those stored with *)
(* source t and target s, or nothing when no live undirected edge joins the *)
(* two nodes. This holds whether the index was computed before or after the *)
(* edges were added.                                                        *)
(***************************************************************************)
C16_FirstOfTheRegisterIsReturned ==
  \A s \in LiveNodes, t \in LiveNodes :
    /\ getDirectedEdge(self, s, t).value = Earliest(DirectedFromTo(s, t))
    /\ getUndirectedEdge(self, s, t).value =
         IF UndirectedFromTo(s, t) # {}
           THEN Earliest(UndirectedFromTo(s, t))
           ELSE Earliest(UndirectedFromTo(t, s))

\* The index is not computed and a multi graph holds two undirected edges
\* between s and t, the earlier stored from t to s and the later from s to
\* t: the lookup from s to t returns the later, the lookup from t to s the
\* earlier.
C16_Witness ==
  /\ multi
  /\ ~Computed
  /\ _size = 2
  /\ \E s \in LiveNodes, t \in LiveNodes :
       /\ s # t
       /\ UndirectedFromTo(t, s) = {_edges[1].key}
       /\ UndirectedFromTo(s, t) = {_edges[2].key}
       /\ getUndirectedEdge(self, s, t).value = Key(_edges[2].key)
       /\ getUndirectedEdge(self, t, s).value = Key(_edges[1].key)

(***************************************************************************)
(* C17. For all live nodes s and t, getEdge(s, t) returns a live directed   *)
(* edge s->t whenever there is one and the type of the graph permits        *)
(* directed edges, whatever the key of that edge; it returns a live         *)
(* undirected edge between s and t only when there is no directed match and *)
(* the type permits undirected edges; it returns nothing when there is      *)
(* neither. (The code tests the directed result with `if (edge)`, so a      *)
(* directed match whose key is falsy, such as the empty string, is passed   *)
(* over in a mixed graph.)                                                  *)
(***************************************************************************)
C17_GetEdgePrefersTheDirectedMatch ==
  \A s \in LiveNodes, t \in LiveNodes :
    LET got == getEdge(self, s, t).value
    IN  IF type \in {"mixed", "directed"} /\ DirectedFromTo(s, t) # {}
          THEN got.t = "key" /\ got.k \in DirectedFromTo(s, t)
        ELSE IF type \in {"mixed", "undirected"} /\ UndirectedBetween(s, t) # {}
          THEN got.t = "key" /\ got.k \in UndirectedBetween(s, t)
        ELSE got = Undefined

\* The live edges attached to node n, as source or as target.
Incident(n) ==
  {e \in LiveEdges : n \in {EdgeData(e).source, EdgeData(e).target}}

(***************************************************************************)
(* C18. For every live node n, dropNode(n) succeeds and removes exactly the *)
(* live edges attached to n (as source or target, of either kind, loops     *)
(* included, each once): size goes down by their number, order by one, the  *)
(* counters of every other node go down by the edges it shared with n, the  *)
(* other nodes keep their attributes and loops, every other edge keeps its  *)
(* record and its place, and hasNode(n) is false afterwards.                *)
(***************************************************************************)
C18_DropNodeRemovesItsEdges ==
  \A n \in LiveNodes :
    LET r    == dropNode(self, n)
        gone == Incident(n)
    IN  /\ r.error = "none"
        /\ r.this._edges = SelectSeq(_edges, LAMBDA e : e.key \notin gone)
        /\ r.this._size = _size - Cardinality(gone)
        /\ r.this._order = _order - 1
        /\ ~hasNode(r.this, n)
        /\ Keys(r.this._nodes) = Keys(Delete(_nodes, n))
        /\ \A m \in LiveNodes \ {n} :
             LET before == NodeData(m)
                 after  == Get(r.this._nodes, m)
             IN  /\ after.attributes = before.attributes
                 /\ after.selfLoops = before.selfLoops
                 /\ "outDegree" \in DOMAIN before =>
                      after.outDegree =
                        before.outDegree - Cardinality(DirectedFromTo(m, n))
                 /\ "inDegree" \in DOMAIN before =>
                      after.inDegree =
                        before.inDegree - Cardinality(DirectedFromTo(n, m))
                 /\ "undirectedDegree" \in DOMAIN before =>
                      after.undirectedDegree =
                        before.undirectedDegree
                          - Cardinality(UndirectedBetween(n, m))

\* The index is computed; a node carries a loop and an edge shared with the
\* other node; dropping it removes both edges and the other node is left
\* with no edge counted.
C18_Witness ==
  /\ Computed
  /\ _order = 2
  /\ \E n \in LiveNodes, m \in LiveNodes :
       /\ m # n
       /\ Cardinality(Incident(n)) = 2
       /\ \E e \in Incident(n) : IsLoop(e)
       /\ \E e \in Incident(n) : ~IsLoop(e)
       /\ LET r == dropNode(self, n)
          IN  /\ r.error = "none"
              /\ r.this._size = 0
              /\ ~hasNode(r.this, n)
              /\ hasNode(r.this, m)
              /\ NoRegister(r.this)

\* The answers of the four lookups by source and target on graph g, for
\* every pair of node keys.
PairLookups(g) ==
  [pair \in NodeIds \X NodeIds |->
     <<hasDirectedEdge2(g, pair[1], pair[2]).value,
       hasUndirectedEdge2(g, pair[1], pair[2]).value,
       getDirectedEdge(g, pair[1], pair[2]).value,
       getUndirectedEdge(g, pair[1], pair[2]).value>>]

(***************************************************************************)
(* C19. From every reachable state, a successful add-edge call under a free *)
(* key followed by dropEdge of that key restores the edge records, size,    *)
(* the counters of every node and the answer of every lookup by source and  *)
(* target; the registers are those the graph had, or would have had once    *)
(* computed, with no emptied set left behind.                               *)
(***************************************************************************)
C19_DropEdgeUndoesAddEdge ==
  \A method \in AddEdgeMethods, edge \in EdgeIds \ LiveEdges,
     s \in NodeIds, t \in NodeIds, attributes \in AttributeArgs :
    LET added == CallAddEdge(method, edge, s, t, attributes)
    IN  added.error = "none" =>
          LET dropped == dropEdge(added.this, edge)
          IN  /\ dropped.error = "none"
              /\ EntityStore(dropped.this) = EntityStore(self)
              /\ PairLookups(dropped.this) = PairLookups(self)
              /\ computeIndex(dropped.this, "structure").this
                   = computeIndex(self, "structure").this
              /\ Computed => dropped.this = self

\* The index is computed and registers one directed edge from s to t; a
\* second one under a free key joins it in the register, and dropping it
\* gives back the graph as it was.
C19_Witness ==
  /\ Computed
  /\ \E s \in LiveNodes, t \in LiveNodes, edge \in EdgeIds \ LiveEdges :
       /\ Cardinality(Registered(s, "out", t)) = 1
       /\ LET added == addDirectedEdgeWithKey(self, edge, s, t, Absent)
          IN  /\ added.error = "none"
              /\ Len(Lookup(Get(added.this._nodes, s), "out", t).edges) = 2
              /\ dropEdge(added.this, edge).this = self

\* The answers of getEdge on graph g, for every pair of node keys.
GetEdgeLookups(g) ==
  [pair \in NodeIds \X NodeIds |-> getEdge(g, pair[1], pair[2]).value]

\* No register set of graph g holds an edge key twice.
NoEdgeRegisteredTwice(g) ==
  \A i \in 1..Len(g._nodes) :
    \A name \in REGISTERS \cap DOMAIN g._nodes[i].val :
      \A neighbor \in DOMAIN g._nodes[i].val[name] :
        LET set == g._nodes[i].val[name][neighbor]
        IN  \A j \in 1..Len(set), k \in 1..Len(set) : set[j] = set[k] => j = k

(***************************************************************************)
(* C20. computeIndex('structure') is idempotent: on a computed index it     *)
(* changes nothing, a second call after a first changes nothing, and no     *)
(* edge is ever registered twice. clearIndex('structure') followed by       *)
(* computeIndex('structure') gives the same answer as before the clear for  *)
(* every lookup by source and target: hasDirectedEdge, hasUndirectedEdge,   *)
(* getDirectedEdge, getUndirectedEdge and getEdge.                          *)
(***************************************************************************)
C20_ComputeIndexIsIdempotent ==
  LET once      == computeIndex(self, "structure")
      twice     == computeIndex(once.this, "structure")
      cleared   == clearIndex(self, "structure")
      recomputed == computeIndex(cleared.this, "structure")
  IN  /\ once.error = "none" /\ twice.error = "none"
      /\ Computed => once.this = self
      /\ twice.this = once.this
      /\ NoEdgeRegisteredTwice(self)
      /\ NoEdgeRegisteredTwice(once.this)
      /\ cleared.error = "none" /\ recomputed.error = "none"
      /\ PairLookups(recomputed.this) = PairLookups(self)
      /\ GetEdgeLookups(recomputed.this) = GetEdgeLookups(self)

\* The index is computed and registers two edges; clearIndex deletes every
\* register and the flag, and computeIndex builds the same registers again.
C20_Witness ==
  /\ Computed
  /\ _size = 2
  /\ ~NoRegister(self)
  /\ LET cleared == clearIndex(self, "structure").this
     IN  /\ ~cleared._indices.structure.computed
         /\ NoRegister(cleared)
         /\ computeIndex(cleared, "structure").this = self

(***************************************************************************)
(* C21. From every reachable state, clear() leaves the graph a newly built  *)
(* graph with the same options is: order and size are 0, hasNode and        *)
(* hasEdge are false for every key, every index is uncomputed and no        *)
(* register is left. The graphs being equal, every later call gives on the  *)
(* cleared graph what it gives on the new one.                              *)
(***************************************************************************)
C21_ClearLeavesANewGraph ==
  LET r == clear(self)
  IN  /\ r.error = "none"
      /\ r.this = Graph(type, multi, selfLoops, map)
      /\ r.this._order = 0
      /\ r.this._size = 0
      /\ \A n \in NodeIds : ~hasNode(r.this, n)
      /\ \A e \in EdgeIds : ~hasEdge1(r.this, e)
      /\ \A name \in INDICES : ~r.this._indices[name].computed
      /\ NoRegister(r.this)
      /\ \A n \in NodeIds, e \in EdgeIds :
           LET again == addNode(r.this, n, Absent).this
               fresh == addNode(Graph(type, multi, selfLoops, map), n, Absent).this
           IN  /\ again = fresh
               /\ addEdgeWithKey(again, e, n, n, Absent)
                    = addEdgeWithKey(fresh, e, n, n, Absent)

\* The graph holds two nodes and two edges and its index is computed with
\* registers: clear() leaves none of it.
C21_Witness ==
  /\ _order = 2
  /\ _size = 2
  /\ Computed
  /\ ~NoRegister(self)
  /\ clear(self).this = Graph(type, multi, selfLoops, map)

\* Whether the structure index of graph g is computed.
ComputedIn(g) == g._indices.structure.computed

\* The flag of the structure index after each call, from the current state,
\* of a method that is neither computeIndex, a lookup by source and target,
\* clearIndex nor clear.
ComputedAfterOtherCalls ==
  {ComputedIn(addNode(self, n, a).this) : n \in NodeIds, a \in AttributeArgs}
  \cup {ComputedIn(addNodesFrom(self, b).this) : b \in Bunches}
  \cup {ComputedIn(CallAddEdge(m[1], m[2], m[3], m[4], m[5]).this) :
          m \in AddEdgeMethods \X EdgeIds \X NodeIds \X NodeIds \X AttributeArgs}
  \cup {ComputedIn(dropEdge(self, e).this) : e \in EdgeIds}
  \cup {ComputedIn(dropNode(self, n).this) : n \in NodeIds}
  \cup {ComputedIn(degree(self, n, f).this) : n \in NodeIds, f \in SelfLoopsArgs}
  \cup {ComputedIn(relatedNode(self, n, e).this) : n \in NodeIds, e \in EdgeIds}
  \cup {ComputedIn(export(self).this)}
  \cup {ComputedIn(computeIndex(self, "neighbors").this),
        ComputedIn(clearIndex(self, "neighbors").this)}

\* The flag after computeIndex('structure') and after each lookup by source
\* and target.
ComputedAfterLookups ==
  {ComputedIn(computeIndex(self, "structure").this)}
  \cup UNION {{ComputedIn(hasEdge2(self, s, t).this),
               ComputedIn(hasDirectedEdge2(self, s, t).this),
               ComputedIn(hasUndirectedEdge2(self, s, t).this),
               ComputedIn(getDirectedEdge(self, s, t).this),
               ComputedIn(getUndirectedEdge(self, s, t).this),
               ComputedIn(getEdge(self, s, t).this)} :
              s \in NodeIds, t \in NodeIds}

(***************************************************************************)
(* C22. The structure index goes from uncomputed to computed and back:      *)
(* computeIndex('structure') and every lookup by source and target (hasEdge *)
(* with two arguments, hasDirectedEdge, hasUndirectedEdge, getDirectedEdge, *)
(* getUndirectedEdge, getEdge) leave it computed; clearIndex('structure')   *)
(* and clear() leave it uncomputed; every other call (addNode, the add-edge *)
(* methods, dropEdge, dropNode among them) leaves it as it was, computed or *)
(* not.                                                                     *)
(***************************************************************************)
C22_IndexLifecycle ==
  /\ ComputedAfterLookups = {TRUE}
  /\ ~ComputedIn(clearIndex(self, "structure").this)
  /\ ~ComputedIn(clear(self).this)
  /\ ComputedAfterOtherCalls = {Computed}

\* The replay of an export: addNode for every node record, in the order of
\* the export, stopping at the first call that throws.
RECURSIVE ReplayNodes(_, _, _)
ReplayNodes(g, records, i) ==
  IF i > Len(records) THEN Return(g, Undefined)
  ELSE LET r == addNode(g, records[i].key, records[i].attributes)
       IN  IF r.error # "none" THEN r ELSE ReplayNodes(r.this, records, i + 1)

\* Then the keyed add-edge of the kind of every edge record, in the order of
\* the export.
RECURSIVE ReplayEdges(_, _, _)
ReplayEdges(g, records, i) ==
  IF i > Len(records) THEN Return(g, Undefined)
  ELSE LET record == records[i]
           r == IF record.undirected
                  THEN addUndirectedEdgeWithKey(g, record.key, record.source,
                                                record.target, record.attributes)
                  ELSE addDirectedEdgeWithKey(g, record.key, record.source,
                                              record.target, record.attributes)
       IN  IF r.error # "none" THEN r ELSE ReplayEdges(r.this, records, i + 1)

\* The replay on an empty graph.
Replay(empty, exported) ==
  LET withNodes == ReplayNodes(empty, exported.nodes, 1)
  IN  IF withNodes.error # "none" THEN withNodes
      ELSE ReplayEdges(withNodes.this, exported.edges, 1)

(***************************************************************************)
(* C23. Round trip: in every reachable state, replaying export() on an      *)
(* empty graph with the same options (addNode for every exported node, then *)
(* addDirectedEdgeWithKey or addUndirectedEdgeWithKey for every exported    *)
(* edge by its undirected flag, in the order of the export) throws nothing  *)
(* and gives a graph with the same order, size, node records with the same  *)
(* counters, edge records, and the same answer of every lookup by source    *)
(* and target.                                                              *)
(***************************************************************************)
C23_ExportRoundTrip ==
  LET replayed == Replay(Graph(type, multi, selfLoops, map), export(self).value)
  IN  /\ export(self).error = "none"
      /\ replayed.error = "none"
      /\ EntityStore(replayed.this) = EntityStore(self)
      /\ PairLookups(replayed.this) = PairLookups(self)
      /\ GetEdgeLookups(replayed.this) = GetEdgeLookups(self)
      /\ \A s \in NodeIds, t \in NodeIds :
           hasEdge2(replayed.this, s, t).value = hasEdge2(self, s, t).value

\* A graph with the nodes B and A, in this order in the store, a directed
\* edge and an undirected edge: the export lists two nodes and two edges,
\* and its replay gives the same records.
C23_Witness ==
  /\ _order = 2
  /\ \E d \in LiveEdges, u \in LiveEdges :
       ~EdgeData(d).undirected /\ EdgeData(u).undirected
  /\ Keys(_nodes) = <<"B", "A">>
  /\ Len(export(self).value.nodes) = 2
  /\ Len(export(self).value.edges) = 2
  /\ EntityStore(Replay(Graph(type, multi, selfLoops, map), export(self).value).this)
       = EntityStore(self)

\* The counters of a node record in a graph of the type of the state.
CountersOfType ==
  {"selfLoops"}
  \cup (IF type \in {"mixed", "directed"} THEN {"inDegree", "outDegree"} ELSE {})
  \cup (IF type \in {"mixed", "undirected"} THEN {"undirectedDegree"} ELSE {})

(***************************************************************************)
(* C24. addNode(node, attributes) throws an invalid-argument error when an  *)
(* attributes argument is given that is not a plain object, and throws (a   *)
(* usage error) when the node is live; in both cases the graph is left as   *)
(* it was: order, the record of the live node with its attributes and       *)
(* counters, and every other record. Otherwise it returns the key, stores   *)
(* one new record whose counters are those of the type of the graph, all    *)
(* 0, increases order by 1 and leaves the rest as it was.                   *)
(***************************************************************************)
C24_AddNodeChecksThenStores ==
  \A node \in NodeIds, attributes \in AttributeArgs :
    LET r == addNode(self, node, attributes)
    IN  IF AttributesInvalid(attributes)
          THEN r.error = InvalidArgumentsGraphError /\ r.this = self
        ELSE IF node \in LiveNodes
          THEN r.error = UsageGraphError /\ r.this = self
        ELSE
          /\ r.error = "none"
          /\ r.value = Key(node)
          /\ r.this._order = _order + 1
          /\ LET data == Get(r.this._nodes, node)
             IN  /\ DOMAIN data = {"attributes"} \cup CountersOfType
                 /\ \A counter \in CountersOfType : data[counter] = 0
                 /\ data.attributes = EmptyObject
                 /\ r.this = [self EXCEPT
                                !._nodes = Append(@, [key |-> node, val |-> data]),
                                !._order = @ + 1]

\* One live node with an edge on it and counters that are not all 0: adding
\* it again is refused, adding another key with null for attributes is
\* refused, and adding another key stores a record with counters at 0.
C24_Witness ==
  /\ _order = 1
  /\ _size = 1
  /\ \E node \in LiveNodes, other \in NodeIds \ LiveNodes :
       /\ \E counter \in CountersOfType : NodeData(node)[counter] > 0
       /\ addNode(self, node, EmptyObject).error = UsageGraphError
       /\ addNode(self, other, JsNull).error = InvalidArgumentsGraphError
       /\ addNode(self, other, Absent).error = "none"
       /\ addNode(self, other, Absent).this._order = 2

(***************************************************************************)
(* C25. In each of the six add-edge methods, an attributes argument that is *)
(* given and is not a plain object (null and the other falsy values among   *)
(* them) makes the call throw an invalid-argument error and store no edge.  *)
(* The calls taken are those whose kind the graph accepts, the rule of the  *)
(* kind being reported before the rule of the attributes.                   *)
(***************************************************************************)
C25_NonMappingAttributesRefused ==
  \A method \in AddEdgeMethods, edge \in EdgeIds, s \in NodeIds, t \in NodeIds,
     attributes \in AttributeArgs :
    (AttributesInvalid(attributes) /\ ~KindIncompatible(method)) =>
      LET r == CallAddEdge(method, edge, s, t, attributes)
      IN  /\ r.error = InvalidArgumentsGraphError
          /\ r.this._edges = _edges
          /\ r.this._size = _size

\* The five degree methods, the call of one of them from the current state,
\* and the counters each adds up.
DegreeMethods ==
  {"inDegree", "outDegree", "directedDegree", "undirectedDegree", "degree"}

CallDegree(method, node, selfLoopsArg) ==
  CASE method = "inDegree" -> inDegree(self, node, selfLoopsArg)
    [] method = "outDegree" -> outDegree(self, node, selfLoopsArg)
    [] method = "directedDegree" -> directedDegree(self, node, selfLoopsArg)
    [] method = "undirectedDegree" -> undirectedDegree(self, node, selfLoopsArg)
    [] method = "degree" -> degree(self, node, selfLoopsArg)

RelevantCounters(method) ==
  CASE method = "inDegree" -> {"inDegree"}
    [] method = "outDegree" -> {"outDegree"}
    [] method = "directedDegree" -> {"inDegree", "outDegree"}
    [] method = "undirectedDegree" -> {"undirectedDegree"}
    [] method = "degree" -> {"inDegree", "outDegree", "undirectedDegree"}

\* The counter of a live node as a number: 0 for a counter that a node of
\* this type of graph does not have.
CounterOf(node, counter) ==
  IF counter \in DOMAIN NodeData(node) THEN NodeData(node)[counter] ELSE 0

\* The sum of the relevant counters of a live node, with its selfLoops when
\* they are asked for.
ExpectedDegree(method, node, withSelfLoops) ==
  (IF "inDegree" \in RelevantCounters(method)
     THEN CounterOf(node, "inDegree") ELSE 0)
  + (IF "outDegree" \in RelevantCounters(method)
       THEN CounterOf(node, "outDegree") ELSE 0)
  + (IF "undirectedDegree" \in RelevantCounters(method)
       THEN CounterOf(node, "undirectedDegree") ELSE 0)
  + (IF withSelfLoops THEN CounterOf(node, "selfLoops") ELSE 0)

(***************************************************************************)
(* C26. Each of inDegree, outDegree, directedDegree, undirectedDegree and   *)
(* degree changes no state; it throws an invalid-argument error when the    *)
(* flag of the self-loops is given and is no boolean, a not-found error     *)
(* when the node is not live (one of the two when both hold), and otherwise *)
(* returns the sum of its relevant counters, plus selfLoops of the node     *)
(* when the flag is true or missing and without it when the flag is false.  *)
(***************************************************************************)
C26_DegreeQueries ==
  \A method \in DegreeMethods, node \in NodeIds, flag \in SelfLoopsArgs :
    LET r == CallDegree(method, node, flag)
        badFlag == flag \notin {Absent, "true", "false"}
    IN  /\ r.this = self
        /\ IF badFlag /\ node \notin LiveNodes
             THEN r.error \in {InvalidArgumentsGraphError, NotFoundGraphError}
           ELSE IF badFlag THEN r.error = InvalidArgumentsGraphError
           ELSE IF node \notin LiveNodes THEN r.error = NotFoundGraphError
           ELSE /\ r.error = "none"
                /\ r.value = Number(ExpectedDegree(method, node, flag # "false"))

(***************************************************************************)
(* C27. relatedNode(node, edge) throws a not-found error when the node or   *)
(* the edge is not live and changes nothing; for a live edge from s to t it *)
(* returns t when node is s and s when node is t, hence the node itself for *)
(* a loop on it.                                                            *)
(***************************************************************************)
C27_RelatedNodeIsTheOtherExtremity ==
  \A node \in NodeIds, edge \in EdgeIds :
    LET r == relatedNode(self, node, edge)
    IN  /\ r.this = self
        /\ IF node \notin LiveNodes \/ edge \notin LiveEdges
             THEN r.error = NotFoundGraphError
             ELSE /\ r.error = "none"
                  /\ node = EdgeData(edge).source =>
                       r.value = Key(EdgeData(edge).target)
                  /\ node = EdgeData(edge).target =>
                       r.value = Key(EdgeData(edge).source)
                  /\ IsLoop(edge) /\ node = EdgeData(edge).source =>
                       r.value = Key(node)

\* One edge between two nodes: relatedNode gives the target for the source
\* and the source for the target, and throws for an edge that is not live.
C27_Witness ==
  \E edge \in LiveEdges, free \in EdgeIds \ LiveEdges :
    LET s == EdgeData(edge).source
        t == EdgeData(edge).target
    IN  /\ s # t
        /\ relatedNode(self, s, edge).value = Key(t)
        /\ relatedNode(self, t, edge).value = Key(s)
        /\ relatedNode(self, s, free).error = NotFoundGraphError

(***************************************************************************)
(* C28. When s or t is not a live node, hasEdge(s, t), hasDirectedEdge(s,   *)
(* t) and hasUndirectedEdge(s, t) return false and getDirectedEdge(s, t),   *)
(* getUndirectedEdge(s, t) and getEdge(s, t) return undefined, none of them *)
(* throwing: in a graph of every type, the index computed or not.           *)
(***************************************************************************)
C28_LookupOfAMissingNodeFindsNothing ==
  \A s \in NodeIds, t \in NodeIds :
    (s \notin LiveNodes \/ t \notin LiveNodes) =>
      /\ hasEdge2(self, s, t).error = "none"
      /\ hasEdge2(self, s, t).value = Boolean(FALSE)
      /\ hasDirectedEdge2(self, s, t).error = "none"
      /\ hasDirectedEdge2(self, s, t).value = Boolean(FALSE)
      /\ hasUndirectedEdge2(self, s, t).error = "none"
      /\ hasUndirectedEdge2(self, s, t).value = Boolean(FALSE)
      /\ getDirectedEdge(self, s, t).error = "none"
      /\ getDirectedEdge(self, s, t).value = Undefined
      /\ getUndirectedEdge(self, s, t).error = "none"
      /\ getUndirectedEdge(self, s, t).value = Undefined
      /\ getEdge(self, s, t).error = "none"
      /\ getEdge(self, s, t).value = Undefined

\* One live node with a loop on it, the index not computed: the lookup of
\* the loop finds it, the lookups from and to the missing node find nothing.
C28_Witness ==
  /\ ~Computed
  /\ \E s \in LiveNodes, t \in NodeIds \ LiveNodes :
       /\ hasEdge2(self, s, s).value = Boolean(TRUE)
       /\ hasEdge2(self, s, t).value = Boolean(FALSE)
       /\ hasEdge2(self, t, s).value = Boolean(FALSE)
       /\ getEdge(self, s, t).value = Undefined
       /\ getEdge(self, s, t).error = "none"

(***************************************************************************)
(* C29. dropEdge, source, target, extremities, undirected and directed      *)
(* throw a not-found error for an edge that is not live, and dropNode for a *)
(* node that is not live; the call that throws leaves the graph as it was   *)
(* (nodes, edges, order, size, counters, index). For a live edge,           *)
(* directed(edge) is the negation of undirected(edge).                      *)
(***************************************************************************)
C29_MissingEntityIsNotFound ==
  /\ \A edge \in EdgeIds \ LiveEdges :
       /\ dropEdge(self, edge) = Throw(self, NotFoundGraphError)
       /\ sourceOf(self, edge) = Throw(self, NotFoundGraphError)
       /\ targetOf(self, edge) = Throw(self, NotFoundGraphError)
       /\ extremities(self, edge) = Throw(self, NotFoundGraphError)
       /\ undirectedOf(self, edge) = Throw(self, NotFoundGraphError)
       /\ directedOf(self, edge) = Throw(self, NotFoundGraphError)
  /\ \A node \in NodeIds \ LiveNodes :
       dropNode(self, node) = Throw(self, NotFoundGraphError)
  /\ \A edge \in LiveEdges :
       /\ undirectedOf(self, edge) = Return(self, Boolean(EdgeData(edge).undirected))
       /\ directedOf(self, edge).error = "none"
       /\ directedOf(self, edge).this = self
       /\ directedOf(self, edge).value.b = ~undirectedOf(self, edge).value.b

\* A computed index, one live node with an undirected loop on it, a node
\* key and an edge key that are not live: the drops of the two missing keys
\* throw, and the live edge is undirected and not directed.
C29_Witness ==
  /\ Computed
  /\ \E edge \in LiveEdges, free \in EdgeIds \ LiveEdges,
        node \in NodeIds \ LiveNodes :
       /\ undirectedOf(self, edge).value = Boolean(TRUE)
       /\ directedOf(self, edge).value = Boolean(FALSE)
       /\ dropEdge(self, free).error = NotFoundGraphError
       /\ directedOf(self, free).error = NotFoundGraphError
       /\ dropNode(self, node).error = NotFoundGraphError
       /\ dropNode(self, node).this = self

\* The methods that add an edge without a key of the caller, and the call of
\* the key generator that each of them makes from the current state.
GeneratingMethods == {"addEdge", "addDirectedEdge", "addUndirectedEdge"}

CallOfKeyGenerator(method, source, target, attributes) ==
  CASE method = "addEdge" ->
         addEdgeKeyGeneratorCall(self, source, target, attributes)
    [] method = "addDirectedEdge" ->
         addDirectedEdgeKeyGeneratorCall(self, source, target, attributes)
    [] method = "addUndirectedEdge" ->
         addUndirectedEdgeKeyGeneratorCall(self, source, target, attributes)

(***************************************************************************)
(* C30. addEdge, addDirectedEdge and addUndirectedEdge call the key         *)
(* generator with (isUndirected, source, target, attributes), the source,   *)
(* target and attributes being those of the call and isUndirected the       *)
(* undirected flag of the edge that the call then stores; the key that the  *)
(* generator returns is the key of the stored edge, which the call returns. *)
(***************************************************************************)
C30_KeyGeneratorIsToldTheKind ==
  \A method \in GeneratingMethods, generated \in EdgeIds, s \in NodeIds,
     t \in NodeIds, attributes \in AttributeArgs :
    LET call == CallOfKeyGenerator(method, s, t, attributes)
        r    == CallAddEdge(method, generated, s, t, attributes)
    IN  /\ call.source = s
        /\ call.target = t
        /\ call.attributes = Param(attributes)
        /\ r.error = "none" =>
             /\ r.value = Key(generated)
             /\ hasEdge1(r.this, generated)
             /\ Get(r.this._edges, generated).source = s
             /\ Get(r.this._edges, generated).target = t
             /\ Get(r.this._edges, generated).undirected = call.isUndirected

(***************************************************************************)
(* C31. computeIndex and clearIndex called with a name that is no index of  *)
(* the graph throw an invalid-argument error and leave the graph as it was, *)
(* the computed flags and every register included; clearIndex('structure')  *)
(* on an index that is not computed changes nothing.                        *)
(***************************************************************************)
C31_UnknownIndexNameIsRefused ==
  /\ \A name \in IndexNames \ INDICES :
       /\ computeIndex(self, name) = Throw(self, InvalidArgumentsGraphError)
       /\ clearIndex(self, name) = Throw(self, InvalidArgumentsGraphError)
  /\ ~Computed =>
       /\ clearIndex(self, "structure").error = "none"
       /\ clearIndex(self, "structure").this = self

\* The index is computed and two edges are registered: the two calls with
\* the name 'unknown' throw and the registers and the flag are as before.
C31_Witness ==
  /\ Computed
  /\ _size = 2
  /\ ~NoRegister(self)
  /\ computeIndex(self, "unknown").error = InvalidArgumentsGraphError
  /\ clearIndex(self, "unknown").error = InvalidArgumentsGraphError
  /\ ComputedIn(clearIndex(self, "unknown").this)
  /\ ~NoRegister(clearIndex(self, "unknown").this)

(***************************************************************************)
(* C32: hasDirectedEdge(e) and hasUndirectedEdge(e) answer true exactly     *)
(* when e is a live edge of the named kind, with and without map: false,   *)
(* without an error, for an absent id, and false for a live edge of the    *)
(* other kind.                                                              *)
(***************************************************************************)
C32_OneArgumentFormsTestTheKind ==
  \A edge \in EdgeIds :
    LET d == hasDirectedEdge1(self, edge)
        u == hasUndirectedEdge1(self, edge)
    IN  /\ d.error = "none" /\ u.error = "none"
        /\ d.value.b <=> (edge \in LiveEdges /\ ~EdgeData(edge).undirected)
        /\ u.value.b <=> (edge \in LiveEdges /\ EdgeData(edge).undirected)

\* The same statement for graphs built without map: there it holds.
C32_WithoutMap == ~map => C32_OneArgumentFormsTestTheKind

\* With map, a live edge is reported as being of both kinds.
C32_WithMapAnyLiveEdgeIsOfBothKinds ==
  map => \A edge \in LiveEdges :
           /\ hasDirectedEdge1(self, edge).value.b
           /\ hasUndirectedEdge1(self, edge).value.b

(***************************************************************************)
(* C33: laziness is unobservable.                                           *)
(***************************************************************************)
\* The graph g with the structure index never computed.
Unindexed(g) == clearIndex(g, "structure").this

\* One mutation, as <<method, edge, source or node, target>>.
Mutations ==
  ({"addNode", "dropNode"} \X {"e1"} \X NodeIds \X {"A"})
  \cup ({"dropEdge"} \X EdgeIds \X {"A"} \X {"A"})
  \cup (AddEdgeMethods \X EdgeIds \X NodeIds \X NodeIds)
  \cup {<<"clear", "e1", "A", "A">>}

Mutate(g, call) ==
  CASE call[1] = "addNode" -> addNode(g, call[3], Absent)
    [] call[1] = "dropNode" -> dropNode(g, call[3])
    [] call[1] = "dropEdge" -> dropEdge(g, call[2])
    [] call[1] = "clear" -> clear(g)
    [] call[1] = "addEdgeWithKey" ->
         addEdgeWithKey(g, call[2], call[3], call[4], Absent)
    [] call[1] = "addDirectedEdgeWithKey" ->
         addDirectedEdgeWithKey(g, call[2], call[3], call[4], Absent)
    [] call[1] = "addUndirectedEdgeWithKey" ->
         addUndirectedEdgeWithKey(g, call[2], call[3], call[4], Absent)
    [] call[1] = "addEdge" -> addEdge(g, call[2], call[3], call[4], Absent)
    [] call[1] = "addDirectedEdge" ->
         addDirectedEdge(g, call[2], call[3], call[4], Absent)
    [] call[1] = "addUndirectedEdge" ->
         addUndirectedEdge(g, call[2], call[3], call[4], Absent)

Outcome(r) == <<r.error, r.value>>

\* What the pair lookups and the degree queries answer on g.
Observations(g) ==
  [pairs   |-> [pair \in NodeIds \X NodeIds |->
                  <<Outcome(hasEdge2(g, pair[1], pair[2])),
                    Outcome(hasDirectedEdge2(g, pair[1], pair[2])),
                    Outcome(hasUndirectedEdge2(g, pair[1], pair[2])),
                    Outcome(getDirectedEdge(g, pair[1], pair[2])),
                    Outcome(getUndirectedEdge(g, pair[1], pair[2])),
                    Outcome(getEdge(g, pair[1], pair[2]))>>],
   degrees |-> [q \in NodeIds \X SelfLoopsArgs |->
                  <<Outcome(inDegree(g, q[1], q[2])),
                    Outcome(outDegree(g, q[1], q[2])),
                    Outcome(directedDegree(g, q[1], q[2])),
                    Outcome(undirectedDegree(g, q[1], q[2])),
                    Outcome(degree(g, q[1], q[2]))>>]]

\* C33: whatever calls built the graph and whenever its index was computed,
\* (1) every pair lookup and every degree query answers as it does on the
\* same graph with the index computed only by that query, and (2) every
\* mutation has the same outcome and leaves the same nodes, edges and
\* counters whether or not the index was computed before it; so a graph
\* indexed before a sequence of mutations and one indexed by the first query
\* after it answer alike.
C33_LazinessIsUnobservable ==
  /\ Observations(self) = Observations(Unindexed(self))
  /\ \A call \in Mutations :
       LET eager == Mutate(computeIndex(self, "structure").this, call)
           kept  == Mutate(self, call)
           lazy  == Mutate(Unindexed(self), call)
       IN  /\ Outcome(eager) = Outcome(lazy)
           /\ Outcome(kept) = Outcome(lazy)
           /\ Unindexed(eager.this) = Unindexed(lazy.this)
           /\ Unindexed(kept.this) = Unindexed(lazy.this)
  /\ \A bunch \in Bunches :
       /\ Outcome(addNodesFrom(self, bunch))
            = Outcome(addNodesFrom(Unindexed(self), bunch))
       /\ Unindexed(addNodesFrom(self, bunch).this)
            = Unindexed(addNodesFrom(Unindexed(self), bunch).this)

\* An index computed before an edge was added and another dropped: the
\* lookups find the remaining edge, with the kept index and with a fresh one.
C33_Witness ==
  /\ multi /\ _size = 1 /\ _order = 2
  /\ \E call \in {"dropEdge"} \X LiveEdges \X {"A"} \X {"A"},
        add \in AddEdgeMethods \X (EdgeIds \ LiveEdges) \X NodeIds \X NodeIds :
       LET before == computeIndex(self, "structure").this
           eager  == Mutate(Mutate(before, add).this, call)
           lazy   == Mutate(Mutate(self, add).this, call)
       IN  /\ ~Computed
           /\ eager.error = "none" /\ lazy.error = "none"
           /\ ComputedIn(eager.this) /\ ~ComputedIn(lazy.this)
           /\ eager.this._size = 1
           /\ Observations(eager.this) = Observations(lazy.this)
           /\ \E pair \in NodeIds \X NodeIds :
                Observations(eager.this).pairs[pair][1] = <<"none", Boolean(TRUE)>>

(***************************************************************************)
(* C34: a failed addNodesFrom(bunch) has added no node of the bunch and    *)
(* leaves order unchanged.                                                  *)
(***************************************************************************)
C34_AddNodesFromIsAllOrNothing ==
  \A bunch \in Bunches :
    LET r == addNodesFrom(self, bunch)
    IN  r.error # "none" =>
          /\ r.this._order = _order
          /\ KeySet(r.this._nodes) = LiveNodes

\* The place of the first element of items that is live or came earlier.
FirstRefused(items) ==
  CHOOSE k \in 1..Len(items) :
    /\ items[k] \in LiveNodes \cup {items[j] : j \in 1..(k - 1)}
    /\ \A i \in 1..(k - 1) :
         items[i] \notin LiveNodes \cup {items[j] : j \in 1..(i - 1)}

\* What a failed addNodesFrom leaves: the elements before the first refused
\* one are nodes of the graph.
C34_FailedCallKeepsTheEarlierNodes ==
  \A bunch \in Bunches \ {NoBunch} :
    LET r == addNodesFrom(self, bunch)
    IN  r.error # "none" =>
          /\ r.error = UsageGraphError
          /\ KeySet(r.this._nodes) =
               LiveNodes \cup
               {bunch.items[j] : j \in 1..(FirstRefused(bunch.items) - 1)}
          /\ r.this._order = _order + FirstRefused(bunch.items) - 1

(***************************************************************************)
(* C35: the kind of edge addEdge and addEdgeWithKey store.                  *)
(***************************************************************************)
UntypedAddEdgeMethods == {"addEdge", "addEdgeWithKey"}

\* The counter of node n in graph g.
CounterIn(g, n, counter) == Get(g._nodes, n)[counter]

\* The undirectedDegree counter of every node is in g what it is now.
UndirectedDegreesKept(g) ==
  \A n \in LiveNodes :
    CounterIn(g, n, "undirectedDegree") = CounterOf(n, "undirectedDegree")

\* A call that added an edge from source to target in a mixed graph and left
\* g raised the outDegree counter of source and the inDegree counter of
\* target and no undirectedDegree counter.
RaisedOutAndInCounters(g, source, target) ==
  /\ CounterIn(g, source, "outDegree") = CounterOf(source, "outDegree") + 1
  /\ CounterIn(g, target, "inDegree") = CounterOf(target, "inDegree") + 1
  /\ UndirectedDegreesKept(g)

\* The same read as the answers of the degree queries.
RaisedOutAndInDegrees(g, source, target) ==
  /\ outDegree(g, source, Absent).value
       = Plus(outDegree(self, source, Absent).value, Number(1))
  /\ inDegree(g, target, Absent).value
       = Plus(inDegree(self, target, Absent).value, Number(1))
  /\ \A n \in LiveNodes :
       undirectedDegree(g, n, Absent).value
         = undirectedDegree(self, n, Absent).value

\* C35 as stated: addEdge and addEdgeWithKey store an undirected edge iff the
\* type of the graph is undirected, and in a mixed graph every edge they add
\* raises outDegree(source) and inDegree(target) and never undirectedDegree,
\* read as the counters or as the degree queries.
C35_MixedGraphRaisesOutAndInDegree ==
  \A method \in UntypedAddEdgeMethods, edge \in EdgeIds,
     source \in NodeIds, target \in NodeIds, attributes \in AttributeArgs :
    LET r == CallAddEdge(method, edge, source, target, attributes)
    IN  r.error = "none" =>
          /\ Get(r.this._edges, edge).undirected <=> (type = "undirected")
          /\ type = "mixed" =>
               \/ RaisedOutAndInCounters(r.this, source, target)
               \/ RaisedOutAndInDegrees(r.this, source, target)

\* C35 amended: addEdge and addEdgeWithKey store an undirected edge iff the
\* type of the graph is undirected; in a mixed graph the directed edge they
\* store raises the outDegree counter of its source and the inDegree counter
\* of its target when the two differ and the selfLoops counter alone when it
\* is a loop, and never an undirectedDegree counter.
C35_AddEdgeStoresTheKindOfTheGraph ==
  \A method \in UntypedAddEdgeMethods, edge \in EdgeIds,
     source \in NodeIds, target \in NodeIds, attributes \in AttributeArgs :
    LET r == CallAddEdge(method, edge, source, target, attributes)
    IN  r.error = "none" =>
          /\ Get(r.this._edges, edge).undirected <=> (type = "undirected")
          /\ type = "mixed" =>
               /\ UndirectedDegreesKept(r.this)
               /\ source # target =>
                    /\ RaisedOutAndInCounters(r.this, source, target)
                    /\ CounterIn(r.this, source, "selfLoops")
                         = CounterOf(source, "selfLoops")
               /\ source = target =>
                    /\ CounterIn(r.this, source, "selfLoops")
                         = CounterOf(source, "selfLoops") + 1
                    /\ CounterIn(r.this, source, "outDegree")
                         = CounterOf(source, "outDegree")
                    /\ CounterIn(r.this, source, "inDegree")
                         = CounterOf(source, "inDegree")

\* A mixed graph holding an undirected edge, in which addEdge adds a directed
\* edge between two nodes and addEdgeWithKey a directed loop.
C35_Witness ==
  /\ type = "mixed" /\ selfLoops /\ _size = 1 /\ _order = 2
  /\ \E e \in LiveEdges : EdgeData(e).undirected /\ ~IsLoop(e)
  /\ \E edge \in EdgeIds \ LiveEdges, source \in LiveNodes, target \in LiveNodes :
       LET r == addEdge(self, edge, source, target, Absent)
           l == addEdgeWithKey(self, edge, source, source, Absent)
       IN  /\ source # target
           /\ r.error = "none" /\ l.error = "none"
           /\ ~Get(r.this._edges, edge).undirected
           /\ ~Get(l.this._edges, edge).undirected
           /\ RaisedOutAndInCounters(r.this, source, target)
           /\ CounterIn(l.this, source, "selfLoops") = 1
           /\ CounterIn(l.this, source, "outDegree") = CounterOf(source, "outDegree")

(***************************************************************************)
(* C36: what a self-loop adds to the degree queries of a mixed graph.       *)
(***************************************************************************)
DegreeIn(g, method, node, selfLoopsArg) ==
  CASE method = "inDegree" -> inDegree(g, node, selfLoopsArg)
    [] method = "outDegree" -> outDegree(g, node, selfLoopsArg)
    [] method = "directedDegree" -> directedDegree(g, node, selfLoopsArg)
    [] method = "undirectedDegree" -> undirectedDegree(g, node, selfLoopsArg)
    [] method = "degree" -> degree(g, node, selfLoopsArg)

LoopsOn(n) == {e \in LiveEdges : EdgeData(e).source = n /\ EdgeData(e).target = n}

\* C36: in a mixed graph, adding a self-loop on n, directed or undirected,
\* raises each of inDegree(n), outDegree(n), directedDegree(n),
\* undirectedDegree(n) and degree(n) by exactly 1 with the self-loop flag true
\* (or left out) and by 0 with the flag false; so the flag makes a difference
\* of one per live loop on n, a directed loop counting once.
C36_ALoopAddsOneToEveryDegree ==
  type = "mixed" =>
    /\ \A method \in AddEdgeMethods, edge \in EdgeIds, n \in NodeIds :
         LET r == CallAddEdge(method, edge, n, n, Absent)
         IN  r.error = "none" =>
               \A query \in DegreeMethods :
                 /\ DegreeIn(r.this, query, n, "true").value
                      = Plus(CallDegree(query, n, "true").value, Number(1))
                 /\ DegreeIn(r.this, query, n, Absent).value
                      = Plus(CallDegree(query, n, Absent).value, Number(1))
                 /\ DegreeIn(r.this, query, n, "false").value
                      = CallDegree(query, n, "false").value
                 /\ CallDegree(query, n, "false").value.t = "number"
    /\ \A n \in LiveNodes, query \in DegreeMethods :
         CallDegree(query, n, "true").value
           = Plus(CallDegree(query, n, "false").value,
                  Number(Cardinality(LoopsOn(n))))

\* A mixed graph with a directed loop on a node, to which an undirected loop
\* is added: every degree of the node goes from 1 to 2 with the flag, and
\* stays 0 without.
C36_Witness ==
  /\ type = "mixed" /\ _size = 1
  /\ \E n \in LiveNodes, e \in LiveEdges, edge \in EdgeIds \ LiveEdges :
       LET r == addUndirectedEdgeWithKey(self, edge, n, n, Absent)
       IN  /\ e \in LoopsOn(n) /\ ~EdgeData(e).undirected
           /\ r.error = "none"
           /\ \A query \in DegreeMethods :
                /\ CallDegree(query, n, "true").value = Number(1)
                /\ DegreeIn(r.this, query, n, "true").value = Number(2)
                /\ DegreeIn(r.this, query, n, "false").value = Number(0)

(***************************************************************************)
(* C37: edge ids are unique among the live edges only.                      *)
(***************************************************************************)
\* A call of an add-edge method on g meets none of the grounds for refusal
\* that are tested before the id, and none of those tested after it.
NoOtherGround(g, method, source, target) ==
  /\ ~KindIncompatible(method)
  /\ hasNode(g, source) /\ hasNode(g, target)
  /\ ~ForbiddenLoop(g, source, target)
  /\ g.multi \/ g._size = 0

\* Ids an edge may be given here: the edge ids and the ids of the live nodes.
IdsToTry == EdgeIds \cup LiveNodes

\* C37: an add-edge call that nothing else stops is refused, with a usage
\* error and no change, iff a live edge has the id; so the id of an edge
\* dropped by dropEdge or by a cascading dropNode can be given to a new edge,
\* and so can the id of a live node, which stays a node.
C37_EdgeIdsAreUniqueAmongLiveEdges ==
  /\ \A method \in AddEdgeMethods, edge \in IdsToTry,
        source \in NodeIds, target \in NodeIds :
       LET r == CallAddEdge(method, edge, source, target, Absent)
       IN  /\ ~KindIncompatible(method) /\ source \in LiveNodes
             /\ target \in LiveNodes /\ edge \in LiveEdges
             => r = Throw(self, UsageGraphError)
           /\ ~KindIncompatible(method) /\ source \in LiveNodes
             /\ target \in LiveNodes /\ ~ForbiddenLoop(self, source, target)
             /\ (multi \/ SameKindConnecting(AsksUndirected(method),
                                             source, target) = {})
             => /\ r.error # "none" <=> edge \in LiveEdges
                /\ r.error = "none" =>
                     /\ KeySet(r.this._edges) = LiveEdges \cup {edge}
                     /\ KeySet(r.this._nodes) = LiveNodes
  /\ \A e \in LiveEdges, method \in AddEdgeMethods,
        source \in NodeIds, target \in NodeIds :
       LET g == dropEdge(self, e).this
       IN  NoOtherGround(g, method, source, target) =>
             LET r == Mutate(g, <<method, e, source, target>>)
             IN  r.error = "none" /\ Has(r.this._edges, e)
  /\ \A n \in LiveNodes, e \in LiveEdges, method \in AddEdgeMethods,
        source \in NodeIds, target \in NodeIds :
       LET g == dropNode(self, n).this
       IN  e \in Incident(n) /\ NoOtherGround(g, method, source, target) =>
             LET r == Mutate(g, <<method, e, source, target>>)
             IN  r.error = "none" /\ Has(r.this._edges, e)

\* A graph whose one edge is refused as a duplicate, dropped and added
\* again, dropped with one of its nodes and added again as a loop, and in
\* which a new edge takes the id of a live node.
C37_Witness ==
  /\ selfLoops /\ _size = 1 /\ _order = 2
  /\ \E e \in LiveEdges, n \in LiveNodes, m \in LiveNodes :
       LET direct  == dropEdge(self, e).this
           cascade == dropNode(self, n).this
           method  == IF type = "undirected" THEN "addUndirectedEdgeWithKey"
                      ELSE "addDirectedEdgeWithKey"
       IN  /\ n # m /\ e \in Incident(n)
           /\ CallAddEdge(method, e, n, m, Absent).error = UsageGraphError
           /\ Mutate(direct, <<method, e, n, m>>).error = "none"
           /\ ~Has(cascade._edges, e)
           /\ Mutate(cascade, <<method, e, m, m>>).error = "none"
           /\ multi =>
                /\ CallAddEdge(method, n, n, m, Absent).error = "none"
                /\ Has(CallAddEdge(method, n, n, m, Absent).this._edges, n)
                /\ Has(CallAddEdge(method, n, n, m, Absent).this._nodes, n)
  /\ multi

(***************************************************************************)
(* C38: what a successful addNode, add-edge and dropEdge leave alone.       *)
(***************************************************************************)
\* The whole record of node n (attributes, counters, registers) is in g what
\* it is now.
NodeKept(g, n) == Has(g._nodes, n) /\ Get(g._nodes, n) = NodeData(n)

\* The record of edge e is in g what it is now.
EdgeKept(g, e) == Has(g._edges, e) /\ Get(g._edges, e) = EdgeData(e)

\* A successful addNode(node) changes only order and the record of node.
AddNodeFrame ==
  \A node \in NodeIds, attributes \in AttributeArgs :
    LET r == addNode(self, node, attributes)
    IN  r.error = "none" =>
          /\ r.this._order = _order + 1
          /\ KeySet(r.this._nodes) = LiveNodes \cup {node}
          /\ node \notin LiveNodes
          /\ \A n \in LiveNodes : NodeKept(r.this, n)
          /\ r.this._edges = _edges
          /\ r.this._size = _size
          /\ r.this._indices = _indices

\* What a successful add-edge leaves alone, the structure of the index set
\* aside: the node set, order, the other edges and the whole record of
\* every node that is no endpoint.
AddEdgeFrameOf(r, edge, source, target) ==
  /\ r.this._size = _size + 1
  /\ r.this._order = _order
  /\ Keys(r.this._nodes) = Keys(_nodes)
  /\ KeySet(r.this._edges) = LiveEdges \cup {edge}
  /\ edge \notin LiveEdges
  /\ \A e \in LiveEdges : EdgeKept(r.this, e)
  /\ \A n \in LiveNodes \ {source, target} : NodeKept(r.this, n)
  /\ \A n \in {source, target} :
       Get(r.this._nodes, n).attributes = NodeData(n).attributes

AddEdgeFrame ==
  \A method \in AddEdgeMethods, edge \in EdgeIds,
     source \in NodeIds, target \in NodeIds, attributes \in AttributeArgs :
    LET r == CallAddEdge(method, edge, source, target, attributes)
    IN  r.error = "none" =>
          /\ AddEdgeFrameOf(r, edge, source, target)
          /\ r.this._indices = _indices

\* A successful dropEdge(edge) changes only size, the record of edge and the
\* counters and registers of its two endpoints.
DropEdgeFrame ==
  \A edge \in EdgeIds :
    LET r == dropEdge(self, edge)
    IN  r.error = "none" =>
          /\ r.this._size = _size - 1
          /\ r.this._order = _order
          /\ Keys(r.this._nodes) = Keys(_nodes)
          /\ KeySet(r.this._edges) = LiveEdges \ {edge}
          /\ \A e \in LiveEdges \ {edge} : EdgeKept(r.this, e)
          /\ \A n \in LiveNodes \ {EdgeData(edge).source, EdgeData(edge).target} :
               NodeKept(r.this, n)
          /\ \A n \in {EdgeData(edge).source, EdgeData(edge).target} :
               Get(r.this._nodes, n).attributes = NodeData(n).attributes
          /\ r.this._indices = _indices

\* C38: a successful addNode changes only order and the record of the new
\* node; a successful add-edge or dropEdge changes only size, the record of
\* that edge and the counters and registers of its two endpoints: the node
\* set, order, the index and the counters and registers of every other node
\* stay as they are.
C38_Frame == AddNodeFrame /\ AddEdgeFrame /\ DropEdgeFrame

\* The frames of addNode and dropEdge hold as stated.
C38_AddNodeAndDropEdgeFrame == AddNodeFrame /\ DropEdgeFrame

\* The frame of add-edge holds in a multigraph and whenever the index was
\* computed before the call.
C38_AddEdgeFrameWithoutLookup ==
  multi \/ Computed =>
    \A method \in AddEdgeMethods, edge \in EdgeIds,
       source \in NodeIds, target \in NodeIds, attributes \in AttributeArgs :
      LET r == CallAddEdge(method, edge, source, target, attributes)
      IN  r.error = "none" =>
            /\ AddEdgeFrameOf(r, edge, source, target)
            /\ r.this._indices = _indices

\* In a simple graph whose index was not computed, everything but the index
\* is framed as stated, up to the registers of the other nodes.
C38_AddEdgeFrameUpToTheIndex ==
  ~Computed =>
    \A method \in AddEdgeMethods, edge \in EdgeIds,
       source \in NodeIds, target \in NodeIds, attributes \in AttributeArgs :
      LET r == CallAddEdge(method, edge, source, target, attributes)
      IN  r.error = "none" =>
            AddEdgeFrameOf([r EXCEPT !.this = Unindexed(r.this)],
                           edge, source, target)

====
